---- MODULE Spec2Model ----
(***************************************************************************)
(* A model of the DES cryptanalysis workbench: the bit primitives and the  *)
(* DES core of des.py, the differential attack of differential_attack.py   *)
(* and the linear attack (Matsui's Algorithm 2) of linear_attack.py.       *)
(* Bit blocks are sequences of 0/1, index 1 holding the most significant   *)
(* bit (Python's index 0).                                                 *)
(***************************************************************************)
EXTENDS Integers, Sequences, FiniteSets, TLC

(***************************************************************************)
(* Fixed data tables of des.py                                             *)
(***************************************************************************)
IP ==
    <<58, 50, 42, 34, 26, 18, 10, 2,
      60, 52, 44, 36, 28, 20, 12, 4,
      62, 54, 46, 38, 30, 22, 14, 6,
      64, 56, 48, 40, 32, 24, 16, 8,
      57, 49, 41, 33, 25, 17, 9, 1,
      59, 51, 43, 35, 27, 19, 11, 3,
      61, 53, 45, 37, 29, 21, 13, 5,
      63, 55, 47, 39, 31, 23, 15, 7>>

FP ==
    <<40, 8, 48, 16, 56, 24, 64, 32,
      39, 7, 47, 15, 55, 23, 63, 31,
      38, 6, 46, 14, 54, 22, 62, 30,
      37, 5, 45, 13, 53, 21, 61, 29,
      36, 4, 44, 12, 52, 20, 60, 28,
      35, 3, 43, 11, 51, 19, 59, 27,
      34, 2, 42, 10, 50, 18, 58, 26,
      33, 1, 41, 9, 49, 17, 57, 25>>

E ==
    <<32, 1, 2, 3, 4, 5,
      4, 5, 6, 7, 8, 9,
      8, 9, 10, 11, 12, 13,
      12, 13, 14, 15, 16, 17,
      16, 17, 18, 19, 20, 21,
      20, 21, 22, 23, 24, 25,
      24, 25, 26, 27, 28, 29,
      28, 29, 30, 31, 32, 1>>

P ==
    <<16, 7, 20, 21, 29, 12, 28, 17,
      1, 15, 23, 26, 5, 18, 31, 10,
      2, 8, 24, 14, 32, 27, 3, 9,
      19, 13, 30, 6, 22, 11, 4, 25>>

PC1 ==
    <<57, 49, 41, 33, 25, 17, 9,
      1, 58, 50, 42, 34, 26, 18,
      10, 2, 59, 51, 43, 35, 27,
      19, 11, 3, 60, 52, 44, 36,
      63, 55, 47, 39, 31, 23, 15,
      7, 62, 54, 46, 38, 30, 22,
      14, 6, 61, 53, 45, 37, 29,
      21, 13, 5, 28, 20, 12, 4>>

PC2 ==
    <<14, 17, 11, 24, 1, 5,
      3, 28, 15, 6, 21, 10,
      23, 19, 12, 4, 26, 8,
      16, 7, 27, 20, 13, 2,
      41, 52, 31, 37, 47, 55,
      30, 40, 51, 45, 33, 48,
      44, 49, 39, 56, 34, 53,
      46, 42, 50, 36, 29, 32>>

ROTATIONS ==
    <<1, 1, 2, 2, 2, 2, 2, 2, 1, 2, 2, 2, 2, 2, 2, 1>>

S_BOXES ==
    <<<<<<14, 4, 13, 1, 2, 15, 11, 8, 3, 10, 6, 12, 5, 9, 0, 7>>,
       <<0, 15, 7, 4, 14, 2, 13, 1, 10, 6, 12, 11, 9, 5, 3, 8>>,
       <<4, 1, 14, 8, 13, 6, 2, 11, 15, 12, 9, 7, 3, 10, 5, 0>>,
       <<15, 12, 8, 2, 4, 9, 1, 7, 5, 11, 3, 14, 10, 0, 6, 13>>>>,
      <<<<15, 1, 8, 14, 6, 11, 3, 4, 9, 7, 2, 13, 12, 0, 5, 10>>,
       <<3, 13, 4, 7, 15, 2, 8, 14, 12, 0, 1, 10, 6, 9, 11, 5>>,
       <<0, 14, 7, 11, 10, 4, 13, 1, 5, 8, 12, 6, 9, 3, 2, 15>>,
       <<13, 8, 10, 1, 3, 15, 4, 2, 11, 6, 7, 12, 0, 5, 14, 9>>>>,
      <<<<10, 0, 9, 14, 6, 3, 15, 5, 1, 13, 12, 7, 11, 4, 2, 8>>,
       <<13, 7, 0, 9, 3, 4, 6, 10, 2, 8, 5, 14, 12, 11, 15, 1>>,
       <<13, 6, 4, 9, 8, 15, 3, 0, 11, 1, 2, 12, 5, 10, 14, 7>>,
       <<1, 10, 13, 0, 6, 9, 8, 7, 4, 15, 14, 3, 11, 5, 2, 12>>>>,
      <<<<7, 13, 14, 3, 0, 6, 9, 10, 1, 2, 8, 5, 11, 12, 4, 15>>,
       <<13, 8, 11, 5, 6, 15, 0, 3, 4, 7, 2, 12, 1, 10, 14, 9>>,
       <<10, 6, 9, 0, 12, 11, 7, 13, 15, 1, 3, 14, 5, 2, 8, 4>>,
       <<3, 15, 0, 6, 10, 1, 13, 8, 9, 4, 5, 11, 12, 7, 2, 14>>>>,
      <<<<2, 12, 4, 1, 7, 10, 11, 6, 8, 5, 3, 15, 13, 0, 14, 9>>,
       <<14, 11, 2, 12, 4, 7, 13, 1, 5, 0, 15, 10, 3, 9, 8, 6>>,
       <<4, 2, 1, 11, 10, 13, 7, 8, 15, 9, 12, 5, 6, 3, 0, 14>>,
       <<11, 8, 12, 7, 1, 14, 2, 13, 6, 15, 0, 9, 10, 4, 5, 3>>>>,
      <<<<12, 1, 10, 15, 9, 2, 6, 8, 0, 13, 3, 4, 14, 7, 5, 11>>,
       <<10, 15, 4, 2, 7, 12, 9, 5, 6, 1, 13, 14, 0, 11, 3, 8>>,
       <<9, 14, 15, 5, 2, 8, 12, 3, 7, 0, 4, 10, 1, 13, 11, 6>>,
       <<4, 3, 2, 12, 9, 5, 15, 10, 11, 14, 1, 7, 6, 0, 8, 13>>>>,
      <<<<4, 11, 2, 14, 15, 0, 8, 13, 3, 12, 9, 7, 5, 10, 6, 1>>,
       <<13, 0, 11, 7, 4, 9, 1, 10, 14, 3, 5, 12, 2, 15, 8, 6>>,
       <<1, 4, 11, 13, 12, 3, 7, 14, 10, 15, 6, 8, 0, 5, 9, 2>>,
       <<6, 11, 13, 8, 1, 4, 10, 7, 9, 5, 0, 15, 14, 2, 3, 12>>>>,
      <<<<13, 2, 8, 4, 6, 15, 11, 1, 10, 9, 3, 14, 5, 0, 12, 7>>,
       <<1, 15, 13, 8, 10, 3, 7, 4, 12, 5, 6, 11, 0, 14, 9, 2>>,
       <<7, 11, 4, 1, 9, 12, 14, 2, 0, 6, 10, 13, 15, 3, 5, 8>>,
       <<2, 1, 14, 7, 4, 10, 8, 13, 15, 12, 9, 0, 3, 5, 6, 11>>>>>>

(***************************************************************************)
(* Python list and integer semantics used by the source                    *)
(***************************************************************************)
Min(a, b) == IF a < b THEN a ELSE b

Max(a, b) == IF a > b THEN a ELSE b

\* The value a raised IndexError is modelled by: a block no bit block equals.
IndexError == <<-1>>

\* s[n:] of a Python list: a negative n counts from the end, both are clamped.
PySliceFrom(s, n) ==
    LET start == IF n >= 0 THEN Min(n, Len(s)) ELSE Max(Len(s) + n, 0)
    IN  SubSeq(s, start + 1, Len(s))

\* s[:n] of a Python list.
PySliceTo(s, n) ==
    LET stop == IF n >= 0 THEN Min(n, Len(s)) ELSE Max(Len(s) + n, 0)
    IN  SubSeq(s, 1, stop)

\* s[a:b] of a Python list, for 0 <= a <= b.
PySlice(s, a, b) == SubSeq(s, Min(a, Len(s)) + 1, Min(b, Len(s)))

\* x >> n of a non-negative Python integer.
RECURSIVE Shr(_, _)
Shr(x, n) == IF n = 0 \/ x = 0 THEN x ELSE Shr(x \div 2, n - 1)

\* a ^ b of two non-negative Python integers.
RECURSIVE BitXor(_, _)
BitXor(a, b) ==
    IF a = 0 THEN b
    ELSE IF b = 0 THEN a
    ELSE (((a % 2) + (b % 2)) % 2) + 2 * BitXor(a \div 2, b \div 2)

\* a & b of two non-negative Python integers.
RECURSIVE BitAnd(_, _)
BitAnd(a, b) ==
    IF a = 0 \/ b = 0 THEN 0
    ELSE ((a % 2) * (b % 2)) + 2 * BitAnd(a \div 2, b \div 2)

(***************************************************************************)
(* Bit primitives of des.py                                                *)
(***************************************************************************)
\* bits_to_int: the block read MSB-first.
RECURSIVE bits_to_int(_)
bits_to_int(bits) ==
    IF Len(bits) = 0 THEN 0
    ELSE 2 * bits_to_int(SubSeq(bits, 1, Len(bits) - 1)) + bits[Len(bits)]

\* int_to_bits: the low `length` bits of num, MSB-first.
int_to_bits(num, length) ==
    SubSeq([i \in 1..length |-> Shr(num, length - i) % 2], 1, length)

\* permute: [bits[i - 1] for i in table]; Python accepts the indices
\* -len..len-1 (a table entry 0 reads the last bit) and raises IndexError
\* on any other.
permute(bits, table) ==
    IF \E k \in 1..Len(table) : table[k] - 1 >= Len(bits) \/ table[k] - 1 < -Len(bits)
    THEN IndexError
    ELSE SubSeq([k \in 1..Len(table) |-> bits[((table[k] - 1) % Len(bits)) + 1]],
                1, Len(table))

\* left_rotate: bits[n:] + bits[:n].
left_rotate(bits, n) == PySliceFrom(bits, n) \o PySliceTo(bits, n)

\* xor: zip stops at the shorter block.
xor(bits1, bits2) ==
    LET n == Min(Len(bits1), Len(bits2))
    IN  SubSeq([k \in 1..n |-> (bits1[k] + bits2[k]) % 2], 1, n)

(***************************************************************************)
(* Hex strings: a Python str is a sequence of one-character strings        *)
(***************************************************************************)
HexUpper == <<"0", "1", "2", "3", "4", "5", "6", "7",
              "8", "9", "A", "B", "C", "D", "E", "F">>

HexLower == <<"0", "1", "2", "3", "4", "5", "6", "7",
              "8", "9", "a", "b", "c", "d", "e", "f">>

IsHexDigit(c) == \E v \in 1..16 : HexUpper[v] = c \/ HexLower[v] = c

HexValue(c) == (CHOOSE v \in 1..16 : HexUpper[v] = c \/ HexLower[v] = c) - 1

\* The value a raised ValueError is modelled by.
ValueError == <<"ValueError">>

\* str.replace("0x", ""): every occurrence, left to right, not overlapping.
RECURSIVE Remove0x(_)
Remove0x(s) ==
    IF Len(s) = 0 THEN s
    ELSE IF Len(s) >= 2 /\ s[1] = "0" /\ s[2] = "x" THEN Remove0x(SubSeq(s, 3, Len(s)))
    ELSE <<s[1]>> \o Remove0x(Tail(s))

\* str.replace(" ", "").
RemoveSpaces(s) == SelectSeq(s, LAMBDA c : c # " ")

\* int(s, 16) raises ValueError: int() skips one leading "0x" or "0X" and
\* rejects an empty numeral and a character that is no hex digit.
ParseFails(s) ==
    LET body == IF Len(s) >= 2 /\ s[1] = "0" /\ s[2] \in {"x", "X"}
                THEN SubSeq(s, 3, Len(s)) ELSE s
    IN  Len(body) = 0 \/ \E k \in 1..Len(body) : ~IsHexDigit(body[k])

\* int(s, 16) as its hex digits, most significant first: Python's integers
\* are unbounded, so the number is kept as its numeral.
ParseHex(s) ==
    LET body == IF Len(s) >= 2 /\ s[1] = "0" /\ s[2] \in {"x", "X"}
                THEN SubSeq(s, 3, Len(s)) ELSE s
    IN  IF ParseFails(s) THEN ValueError
        ELSE [k \in 1..Len(body) |-> HexValue(body[k])]

\* (num >> p) & 1 for the number with the hex digits `digits`.
BitOfNumeral(digits, p) ==
    IF p \div 4 >= Len(digits) THEN 0
    ELSE Shr(digits[Len(digits) - (p \div 4)], p % 4) % 2

hex_to_bits(hex_string) ==
    LET stripped == RemoveSpaces(Remove0x(hex_string))
        num      == ParseHex(stripped)
    IN  IF ParseFails(stripped) THEN ValueError
        ELSE SubSeq([k \in 1..64 |-> BitOfNumeral(num, 63 - (k - 1))], 1, 64)

\* The hex digits of the number a block folds to, without leading zeros.
RECURSIVE StripLeadingZeros(_)
StripLeadingZeros(digits) ==
    IF Len(digits) > 0 /\ digits[1] = 0 THEN StripLeadingZeros(Tail(digits))
    ELSE digits

\* bits_to_hex: format(num, '016X') pads with zeros to 16 digits and never
\* cuts a longer numeral.
bits_to_hex(bits) ==
    LET pad     == (4 - (Len(bits) % 4)) % 4
        padded  == [k \in 1..pad |-> 0] \o bits
        nibbles == [k \in 1..(Len(padded) \div 4) |->
                       bits_to_int(SubSeq(padded, 4 * k - 3, 4 * k))]
        digits  == StripLeadingZeros(nibbles)
        zeros   == Max(16 - Len(digits), 0)
    IN  [k \in 1..zeros |-> "0"] \o [k \in 1..Len(digits) |-> HexUpper[digits[k] + 1]]

(***************************************************************************)
(* Key schedule                                                            *)
(***************************************************************************)
\* for round_num in range(16): the subkeys of the passes round_num..16, the
\* loop entering pass round_num with the halves C and D.
RECURSIVE SubkeysFrom(_, _, _)
SubkeysFrom(C, D, round_num) ==
    IF round_num > 16 THEN <<>>
    ELSE LET C_rot  == left_rotate(C, ROTATIONS[round_num])
             D_rot  == left_rotate(D, ROTATIONS[round_num])
             subkey == permute(C_rot \o D_rot, PC2)
         IN  <<subkey>> \o SubkeysFrom(C_rot, D_rot, round_num + 1)

\* A key schedule over the first 56 bits of the key in place of PC-1.
GenerateSubkeysFirst56(key) ==
    LET key_56 == PySliceTo(key, 56)
    IN  SubkeysFrom(PySliceTo(key_56, 28), PySliceFrom(key_56, 28), 1)

generate_subkeys(key) ==
    LET key_56 == permute(key, PC1)
    IN  IF key_56 = IndexError THEN IndexError
        ELSE SubkeysFrom(PySliceTo(key_56, 28), PySliceFrom(key_56, 28), 1)

(***************************************************************************)
(* Feistel function                                                        *)
(***************************************************************************)
\* S_BOXES[i][row][col] of the source, all three 0-based.
SBoxAt(i, row, col) == S_BOXES[i + 1][row + 1][col + 1]

\* An S-box lookup that reads the four inner bits in reverse order.
SBoxBitsColumnReversed(bits_48, i) ==
    LET block == PySlice(bits_48, i * 6, (i + 1) * 6)
        row   == 2 * block[1] + block[6]
        col   == 8 * block[5] + 4 * block[4] + 2 * block[3] + block[2]
        val   == SBoxAt(i, row, col)
    IN  int_to_bits(val, 4)

\* The 4 output bits of S-box i (0-based) for the 48-bit input.
SBoxBits(bits_48, i) ==
    LET block == PySlice(bits_48, i * 6, (i + 1) * 6)
        row   == 2 * block[1] + block[6]
        col   == 8 * block[2] + 4 * block[3] + 2 * block[4] + block[5]
        val   == SBoxAt(i, row, col)
    IN  int_to_bits(val, 4)

\* for i in range(8): output.extend(...)
s_box_substitution(bits_48) ==
    SBoxBits(bits_48, 0) \o SBoxBits(bits_48, 1) \o SBoxBits(bits_48, 2)
        \o SBoxBits(bits_48, 3) \o SBoxBits(bits_48, 4) \o SBoxBits(bits_48, 5)
        \o SBoxBits(bits_48, 6) \o SBoxBits(bits_48, 7)

\* An exception raised by a step ends the function: the later steps are not
\* run and the caller receives the exception.
feistel_function(R, subkey) ==
    LET expanded == permute(R, E)
    IN  IF expanded = IndexError THEN IndexError
        ELSE LET xored       == xor(expanded, subkey)
                 substituted == s_box_substitution(xored)
             IN  permute(substituted, P)

(***************************************************************************)
(* Block encryption and decryption                                         *)
(***************************************************************************)
\* One pass of the loop body shared by the three block functions, on the pair
\* <<L, R>>:
\* old_R = R; f_result = f(R, K); R = xor(L, f_result); L = old_R.
FeistelRound(LR, subkey) ==
    LET f_result == feistel_function(LR[2], subkey)
    IN  IF f_result = IndexError THEN IndexError
        ELSE <<LR[2], xor(LR[1], f_result)>>

\* The halves L = permuted[:32] and R = permuted[32:].
Halves(permuted) == <<PySliceTo(permuted, 32), PySliceFrom(permuted, 32)>>

\* for i in range(16): the state after the first n passes.
RECURSIVE EncryptLoop(_, _, _)
EncryptLoop(LR, subkeys, n) ==
    IF n = 0 THEN LR
    ELSE LET before == EncryptLoop(LR, subkeys, n - 1)
         IN  IF before = IndexError THEN IndexError
             ELSE FeistelRound(before, subkeys[n])

des_encrypt_block(plaintext, key) ==
    LET subkeys == generate_subkeys(key)
    IN  IF subkeys = IndexError THEN IndexError
        ELSE LET permuted == permute(plaintext, IP)
             IN  IF permuted = IndexError THEN IndexError
                 ELSE LET LR == EncryptLoop(Halves(permuted), subkeys, 16)
                      IN  IF LR = IndexError THEN IndexError
                          ELSE permute(LR[2] \o LR[1], FP)

\* A decryption loop that takes the subkeys in the order of encryption.
RECURSIVE DecryptLoopForward(_, _, _)
DecryptLoopForward(LR, subkeys, n) ==
    IF n = 0 THEN LR
    ELSE LET before == DecryptLoopForward(LR, subkeys, n - 1)
         IN  IF before = IndexError THEN IndexError
             ELSE FeistelRound(before, subkeys[n])

\* for i in range(15, -1, -1): the state after the first n passes, which use
\* the subkeys 16, 15, ..., 17 - n.
RECURSIVE DecryptLoop(_, _, _)
DecryptLoop(LR, subkeys, n) ==
    IF n = 0 THEN LR
    ELSE LET before == DecryptLoop(LR, subkeys, n - 1)
         IN  IF before = IndexError THEN IndexError
             ELSE FeistelRound(before, subkeys[17 - n])

des_decrypt_block(ciphertext, key) ==
    LET subkeys == generate_subkeys(key)
    IN  IF subkeys = IndexError THEN IndexError
        ELSE LET permuted == permute(ciphertext, IP)
             IN  IF permuted = IndexError THEN IndexError
                 ELSE LET LR == DecryptLoop(Halves(permuted), subkeys, 16)
                      IN  IF LR = IndexError THEN IndexError
                          ELSE permute(LR[2] \o LR[1], FP)

\* A loop that stops one pass early.
RECURSIVE RoundsLoopStopsEarly(_, _, _)
RoundsLoopStopsEarly(LR, subkeys, n) ==
    IF n <= 1 THEN LR
    ELSE LET before == RoundsLoopStopsEarly(LR, subkeys, n - 1)
         IN  IF before = IndexError THEN IndexError
             ELSE FeistelRound(before, subkeys[n - 1])

\* for i in range(num_rounds): the state after the first n passes.
RECURSIVE RoundsLoop(_, _, _)
RoundsLoop(LR, subkeys, n) ==
    IF n = 0 THEN LR
    ELSE LET before == RoundsLoop(LR, subkeys, n - 1)
         IN  IF before = IndexError THEN IndexError
             ELSE FeistelRound(before, subkeys[n])

\* The reduced cipher with the halves joined as L + R before FP.
EncryptRoundsWithoutSwap(plaintext, key, num_rounds) ==
    LET LR == RoundsLoop(Halves(permute(plaintext, IP)), generate_subkeys(key), num_rounds)
    IN  <<permute(LR[1] \o LR[2], FP), LR[1], LR[2]>>

\* des_encrypt_block_rounds: the same structure with num_rounds passes;
\* it returns (ciphertext, L, R).
des_encrypt_block_rounds(plaintext, key, num_rounds) ==
    LET subkeys == generate_subkeys(key)
    IN  IF subkeys = IndexError THEN IndexError
        ELSE LET permuted == permute(plaintext, IP)
             IN  IF permuted = IndexError THEN IndexError
                 ELSE LET LR == RoundsLoop(Halves(permuted), subkeys, num_rounds)
                      IN  IF LR = IndexError THEN IndexError
                          ELSE <<permute(LR[2] \o LR[1], FP), LR[1], LR[2]>>

(***************************************************************************)
(* High-level functions on hex strings                                     *)
(***************************************************************************)
encrypt(plaintext_hex, key_hex) ==
    LET plaintext_bits == hex_to_bits(plaintext_hex)
    IN  IF plaintext_bits = ValueError THEN ValueError
        ELSE LET key_bits == hex_to_bits(key_hex)
             IN  IF key_bits = ValueError THEN ValueError
                 ELSE LET ciphertext_bits == des_encrypt_block(plaintext_bits, key_bits)
                      IN  IF ciphertext_bits = IndexError THEN IndexError
                          ELSE bits_to_hex(ciphertext_bits)

decrypt(ciphertext_hex, key_hex) ==
    LET ciphertext_bits == hex_to_bits(ciphertext_hex)
    IN  IF ciphertext_bits = ValueError THEN ValueError
        ELSE LET key_bits == hex_to_bits(key_hex)
             IN  IF key_bits = ValueError THEN ValueError
                 ELSE LET plaintext_bits == des_decrypt_block(ciphertext_bits, key_bits)
                      IN  IF plaintext_bits = IndexError THEN IndexError
                          ELSE bits_to_hex(plaintext_bits)

(***************************************************************************)
(* Differential attack (differential_attack.py)                            *)
(***************************************************************************)
\* x ^ y for 6-bit x and y: row x + 1, column y + 1.
XorTable ==
    SubSeq([a \in 1..64 |-> SubSeq([b \in 1..64 |-> BitXor(a - 1, b - 1)], 1, 64)], 1, 64)

\* The S-box for the 6-bit x as compute_ddt looks it up: row from bits 0
\* and 5, column from the bits between.
DdtSBoxLookup(sbox, x) ==
    LET row_x == 2 * (Shr(x, 5) % 2) + (x % 2)
        col_x == Shr(x, 1) % 16
    IN  sbox[row_x + 1][col_x + 1]

\* An output difference taken from x on both sides.
DeltaYSameInput(sx, x, delta_x) ==
    LET y       == sx[x + 1]
        y_prime == sx[x + 1]
    IN  XorTable[y + 1][y_prime + 1]

\* The body of the loops of compute_ddt: delta_y for x and delta_x, sx
\* being the S-box values of 0..63.
DeltaY(sx, x, delta_x) ==
    LET x_prime == XorTable[x + 1][delta_x + 1]
        y       == sx[x + 1]
        y_prime == sx[x_prime + 1]
    IN  XorTable[y + 1][y_prime + 1]

\* compute_ddt: ddt[delta_x][delta_y] is row delta_x + 1, column delta_y + 1.
\* The loops add 1 to ddt[delta_x][delta_y] for every x of range(64), so an
\* entry ends as the number of x whose delta_y it is.
compute_ddt(sbox) ==
    LET sx == SubSeq([x \in 1..64 |-> DdtSBoxLookup(sbox, x - 1)], 1, 64)
    IN  SubSeq([dx \in 1..64 |->
            LET delta_ys == SubSeq([x \in 1..64 |-> DeltaY(sx, x - 1, dx - 1)], 1, 64)
            IN  SubSeq([dy \in 1..16 |->
                    Cardinality({x \in 1..64 : delta_ys[x] = dy - 1})], 1, 16)],
            1, 64)

\* compute_all_ddts
compute_all_ddts == SubSeq([i \in 1..8 |-> compute_ddt(S_BOXES[i])], 1, 8)

\* The list find_best_differentials builds before it sorts: (delta_in,
\* delta_out, count, prob) for delta_in in range(1, 64), delta_out in
\* range(16), in the order of the loops, where count > 0.  prob, count /
\* 64.0, is the pair <<count, 64>>.
DifferentialsOf(ddt) ==
    LET entry(k) == LET delta_in  == 1 + (k - 1) \div 16
                        delta_out == (k - 1) % 16
                        count     == ddt[delta_in + 1][delta_out + 1]
                    IN  <<delta_in, delta_out, count, <<count, 64>>>>
        every == SubSeq([k \in 1..(63 * 16) |-> entry(k)], 1, 63 * 16)
    IN  SelectSeq(every, LAMBDA d : d[3] > 0)

\* A sort that puts the entries in ascending order of count.
RECURSIVE SortByCountAscending(_)
SortByCountAscending(differentials) ==
    IF differentials = <<>> THEN <<>>
    ELSE LET least == CHOOSE c \in {differentials[j][3] : j \in 1..Len(differentials)} :
                          \A j \in 1..Len(differentials) : differentials[j][3] >= c
         IN  SelectSeq(differentials, LAMBDA d : d[3] = least)
                 \o SortByCountAscending(SelectSeq(differentials, LAMBDA d : d[3] > least))

\* differentials.sort(key=lambda x: x[2], reverse=True): the sort of Python
\* is stable, also with reverse=True, so the entries come in descending
\* order of count and entries of equal count keep the order they had.
RECURSIVE SortByCountDescending(_)
SortByCountDescending(differentials) ==
    IF differentials = <<>> THEN <<>>
    ELSE LET top == CHOOSE c \in {differentials[j][3] : j \in 1..Len(differentials)} :
                        \A j \in 1..Len(differentials) : differentials[j][3] <= c
         IN  SelectSeq(differentials, LAMBDA d : d[3] = top)
                 \o SortByCountDescending(SelectSeq(differentials, LAMBDA d : d[3] < top))

\* find_best_differentials(ddt, top_n): differentials[:top_n] of the sorted list.
find_best_differentials(ddt, top_n) ==
    PySliceTo(SortByCountDescending(DifferentialsOf(ddt)), top_n)

\* np.max(ddt) over every row, the row of delta_in = 0 included.
DdtMaxAllRows(ddt) ==
    LET values == {ddt[dx][dy] : dx \in 1..64, dy \in 1..16}
    IN  CHOOSE v \in values : \A w \in values : w <= v

\* np.max(ddt[1:, :]) of demonstrate_ddt
DdtMax(ddt) ==
    LET values == {ddt[dx][dy] : dx \in 2..64, dy \in 1..16}
    IN  CHOOSE v \in values : \A w \in values : w <= v

\* np.count_nonzero(ddt) of demonstrate_ddt
DdtCountNonzero(ddt) ==
    Cardinality({<<dx, dy>> \in (1..64) \X (1..16) : ddt[dx][dy] # 0})

\* char.input_diff of build_4_round_characteristic: (0x40080000, 0x04000000).
input_diff == <<1074266112, 67108864>>

\* The 4-round cipher the attacks are demonstrated on.
DemoRounds == 4

\* oracle of demonstrate_attack: the reduced cipher under the unknown key.
oracle(key_bits, plaintext_bits) ==
    des_encrypt_block_rounds(plaintext_bits, key_bits, DemoRounds)[1]

\* A pair whose second block is the first.
GeneratePlaintextPairWithoutDelta(P_rand, delta_L, delta_R) == <<P_rand, P_rand>>

\* generate_plaintext_pair, P_rand being the block random.randint produced.
generate_plaintext_pair(P_rand, delta_L, delta_R) ==
    LET delta   == int_to_bits(delta_L, 32) \o int_to_bits(delta_R, 32)
        P_prime == xor(P_rand, delta)
    IN  <<P_rand, P_prime>>

\* The body of the loop of collect_pairs: the tuple (P, P', C, C') for the
\* generated block P_rand.
CollectPair(oracle_key, P_rand, delta_L, delta_R) ==
    LET PP      == generate_plaintext_pair(P_rand, delta_L, delta_R)
        C       == oracle(oracle_key, PP[1])
        C_prime == oracle(oracle_key, PP[2])
    IN  <<PP[1], PP[2], C, C_prime>>

\* collect_pairs: one tuple per generated block of drawn, len(drawn) =
\* num_pairs; oracle_key is the key the oracle encrypts under.
collect_pairs(oracle_key, drawn, delta_L, delta_R) ==
    SubSeq([k \in 1..Len(drawn) |-> CollectPair(oracle_key, drawn[k], delta_L, delta_R)],
           1, Len(drawn))

\* The blocks collect_pairs calls oracle_func on, in the order of the calls:
\* C = oracle_func(P) then C_prime = oracle_func(P_prime) in every pass.
OracleCalls(drawn, delta_L, delta_R) ==
    SubSeq([k \in 1..(2 * Len(drawn)) |->
               generate_plaintext_pair(drawn[(k + 1) \div 2], delta_L, delta_R)[2 - (k % 2)]],
           1, 2 * Len(drawn))

\* partial_decrypt_last_round up to the choice of the S-box input: the six
\* bits of E(R15) that enter S-box sbox_index.
LastRoundInput(C, sbox_index) ==
    LET after_ip_inv == permute(C, IP)
        R16          == PySliceTo(after_ip_inv, 32)
        L16          == PySliceFrom(after_ip_inv, 32)
        R15          == L16
        expanded_R15 == permute(R15, E)
        start        == sbox_index * 6
    IN  PySlice(expanded_R15, start, start + 6)

\* A lookup that takes the two row bits in the other order.
GuessedSBoxOutputRowSwapped(input_bits, subkey_guess, sbox_index) ==
    LET xored     == xor(input_bits, subkey_guess)
        xored_int == bits_to_int(xored)
        row       == 2 * (xored_int % 2) + (Shr(xored_int, 5) % 2)
        col       == Shr(xored_int, 1) % 16
    IN  SBoxAt(sbox_index, row, col)

\* partial_decrypt_last_round from the XOR with the guess on: the S-box
\* output for the input bits and the guessed six key bits.
GuessedSBoxOutput(input_bits, subkey_guess, sbox_index) ==
    LET xored     == xor(input_bits, subkey_guess)
        xored_int == bits_to_int(xored)
        row       == 2 * (Shr(xored_int, 5) % 2) + (xored_int % 2)
        col       == Shr(xored_int, 1) % 16
    IN  SBoxAt(sbox_index, row, col)

partial_decrypt_last_round(C, subkey_guess, sbox_index) ==
    GuessedSBoxOutput(LastRoundInput(C, sbox_index), subkey_guess, sbox_index)

\* range(64)
AllGuesses == [g \in 1..64 |-> g - 1]

\* A Python dict is the sequence of its <<key, value>> items in insertion
\* order, which is the order Python iterates it in.
DictHas(d, k) == \E j \in 1..Len(d) : d[j][1] = k

\* d.get(k, 0)
DictGet(d, k) == IF DictHas(d, k) THEN d[CHOOSE j \in 1..Len(d) : d[j][1] = k][2] ELSE 0

\* A counting step that enters every key with 1 and never counts further.
DictSetAll(d, keys) ==
    LET fresh == SelectSeq(keys, LAMBDA k : ~DictHas(d, k))
    IN  d \o [j \in 1..Len(fresh) |-> <<fresh[j], 1>>]

\* d[k] += 1 for every k of keys, in the order of keys: a defaultdict(int)
\* keeps a key where it first entered it.
DictIncrementAll(d, keys) ==
    LET fresh == SelectSeq(keys, LAMBDA k : ~DictHas(d, k))
    IN  [j \in 1..Len(d) |->
            IF \E m \in 1..Len(keys) : keys[m] = d[j][1]
            THEN <<d[j][1], d[j][2] + 1>> ELSE d[j]]
        \o [j \in 1..Len(fresh) |-> <<fresh[j], 1>>]

\* The matching guesses read from the plaintexts of the pair in place of its
\* ciphertexts.
DiffMatchesOnPlaintexts(pair, sbox_index, expected_output_diff) ==
    LET in1 == LastRoundInput(pair[1], sbox_index)
        in2 == LastRoundInput(pair[2], sbox_index)
    IN  SelectSeq(AllGuesses, LAMBDA key_guess :
            LET key_bits    == int_to_bits(key_guess, 6)
                out1        == GuessedSBoxOutput(in1, key_bits, sbox_index)
                out2        == GuessedSBoxOutput(in2, key_bits, sbox_index)
                output_diff == BitXor(out1, out2)
            IN  output_diff = expected_output_diff)

\* The inner loop of attack_sbox for one pair: the guesses of range(64), in
\* order, whose output difference is the expected one.  partial_decrypt_
\* last_round(C, key_bits, sbox_index) is taken in its two steps so that the
\* step that does not depend on the guess is evaluated once per ciphertext.
DiffMatches(pair, sbox_index, expected_output_diff) ==
    LET in1 == LastRoundInput(pair[3], sbox_index)
        in2 == LastRoundInput(pair[4], sbox_index)
    IN  SelectSeq(AllGuesses, LAMBDA key_guess :
            LET key_bits    == int_to_bits(key_guess, 6)
                out1        == GuessedSBoxOutput(in1, key_bits, sbox_index)
                out2        == GuessedSBoxOutput(in2, key_bits, sbox_index)
                output_diff == BitXor(out1, out2)
            IN  output_diff = expected_output_diff)

\* for P, P_prime, C, C_prime in pairs: scores after the first n pairs.
RECURSIVE DiffScorePairs(_, _, _, _)
DiffScorePairs(pairs, sbox_index, expected_output_diff, n) ==
    IF n = 0 THEN <<>>
    ELSE DictIncrementAll(DiffScorePairs(pairs, sbox_index, expected_output_diff, n - 1),
                          DiffMatches(pairs[n], sbox_index, expected_output_diff))

\* max(d.keys(), key=lambda k: d[k]): the first key, in iteration order,
\* whose value no other exceeds.
PyMaxKey(d) ==
    LET first == CHOOSE j \in 1..Len(d) :
                    /\ \A m \in 1..Len(d) : d[m][2] <= d[j][2]
                    /\ \A m \in 1..(j - 1) : d[m][2] < d[j][2]
    IN  d[first][1]

\* max(d.values())
PyMaxValue(d) == d[CHOOSE j \in 1..Len(d) : \A m \in 1..Len(d) : d[m][2] <= d[j][2]][2]

\* DifferentialAttack.attack_sbox: (best_key, scores).
attack_sbox(pairs, sbox_index, expected_output_diff) ==
    LET scores   == DiffScorePairs(pairs, sbox_index, expected_output_diff, Len(pairs))
        best_key == IF Len(scores) > 0 THEN PyMaxKey(scores) ELSE 0
    IN  <<best_key, scores>>

\* The line run_attack prints for an S-box.
DiffReportLine(sbox_idx, best_key, scores) ==
    IF Len(scores) > 0
    THEN <<"S-blok", sbox_idx + 1, "klucz", best_key, "score", PyMaxValue(scores)>>
    ELSE <<"S-blok", sbox_idx + 1, "brak wyników">>

\* for sbox_idx in range(8) of run_attack: the dictionary recovered_keys and
\* the printed lines after the first n S-boxes.
RECURSIVE RunAttackLoop(_, _)
RunAttackLoop(pairs, n) ==
    IF n = 0 THEN <<<<>>, <<>>>>
    ELSE LET before        == RunAttackLoop(pairs, n - 1)
             sbox_idx      == n - 1
             expected_diff == 0
             result        == attack_sbox(pairs, sbox_idx, expected_diff)
         IN  <<Append(before[1], <<sbox_idx, result[1]>>),
               Append(before[2], DiffReportLine(sbox_idx, result[1], result[2]))>>

\* run_attack from the collected pairs on: the triple of the pairs, the
\* dictionary recovered_keys it returns and the lines it prints for the
\* S-boxes.
RunAttackOn(pairs) == <<pairs>> \o RunAttackLoop(pairs, 8)

\* DifferentialAttack.run_attack(oracle_func, num_pairs), drawn being the
\* num_pairs blocks random.randint produces.
run_attack(oracle_key, drawn) ==
    RunAttackOn(collect_pairs(oracle_key, drawn, input_diff[1], input_diff[2]))

(***************************************************************************)
(* Linear attack (linear_attack.py)                                        *)
(***************************************************************************)
Abs(v) == IF v < 0 THEN -v ELSE v

\* parity(x): the XOR of the bits of x.
RECURSIVE parity(_)
parity(x) == IF x = 0 THEN 0 ELSE BitXor(x % 2, parity(Shr(x, 1)))

\* parity(x & mask) for every 6-bit mask and x: row mask + 1, column x + 1.
\* compute_lat evaluates parity(x & alpha) and parity(sx & beta) on these
\* arguments only, a 4-bit sx and beta being 6-bit values too.
MaskParity ==
    SubSeq([m \in 1..64 |->
              SubSeq([x \in 1..64 |-> parity(BitAnd(x - 1, m - 1))], 1, 64)], 1, 64)

\* The row and column lookup of compute_lat: sx for the 6-bit x.
SBoxLookup(sbox, x) ==
    LET row == 2 * (Shr(x, 5) % 2) + (x % 2)
        col == Shr(x, 1) % 16
    IN  sbox[row + 1][col + 1]

\* A table of the counts themselves, without the deviation from 32.
ComputeLatUncentred(sbox) ==
    LET sx == SubSeq([x \in 1..64 |-> SBoxLookup(sbox, x - 1)], 1, 64)
    IN  SubSeq([a \in 1..64 |-> SubSeq([b \in 1..16 |->
            Cardinality({x \in 1..64 : MaskParity[a][x] = MaskParity[b][sx[x] + 1]})],
            1, 16)], 1, 64)

\* compute_lat: lat[alpha][beta] is row alpha + 1, column beta + 1.
compute_lat(sbox) ==
    LET sx == SubSeq([x \in 1..64 |-> SBoxLookup(sbox, x - 1)], 1, 64)
    IN  SubSeq([a \in 1..64 |-> SubSeq([b \in 1..16 |->
            Cardinality({x \in 1..64 : MaskParity[a][x] = MaskParity[b][sx[x] + 1]}) - 32],
            1, 16)], 1, 64)

\* compute_all_lats
compute_all_lats == SubSeq([i \in 1..8 |-> compute_lat(S_BOXES[i])], 1, 8)

\* The masks of the first entry of largest |LAT| with |LAT| in place of the
\* entry.
BestLatMaskUnsigned(lat) ==
    LET values == {Abs(lat[alpha + 1][beta + 1]) : alpha \in 1..63, beta \in 1..15}
        top    == CHOOSE v \in values : \A w \in values : w <= v
        alphas == {alpha \in 1..63 : \E beta \in 1..15 : Abs(lat[alpha + 1][beta + 1]) = top}
        first  == CHOOSE alpha \in alphas : \A a \in alphas : alpha <= a
        betas  == {beta \in 1..15 : Abs(lat[first + 1][beta + 1]) = top}
    IN  <<first, CHOOSE beta \in betas : \A b \in betas : beta <= b, top>>

\* best_lat_mask: (best_alpha, best_beta, best_lat).  The loops replace the
\* best entry only by one of strictly larger |LAT|, so they end with the
\* first entry, in the order alpha = 1..63 then beta = 1..15, whose |LAT| no
\* entry exceeds, and with (0, 0, 0) when every entry is 0.
best_lat_mask(lat) ==
    LET values == {Abs(lat[alpha + 1][beta + 1]) : alpha \in 1..63, beta \in 1..15}
        top    == CHOOSE v \in values : \A w \in values : w <= v
    IN  IF top = 0 THEN <<0, 0, 0>>
        ELSE LET best_alpha == CHOOSE alpha \in 1..63 :
                     /\ \E beta \in 1..15 : Abs(lat[alpha + 1][beta + 1]) = top
                     /\ \A a \in 1..(alpha - 1) : \A beta \in 1..15 :
                            Abs(lat[a + 1][beta + 1]) # top
                 best_beta  == CHOOSE beta \in 1..15 :
                     /\ Abs(lat[best_alpha + 1][beta + 1]) = top
                     /\ \A b \in 1..(beta - 1) : Abs(lat[best_alpha + 1][b + 1]) # top
             IN  <<best_alpha, best_beta, lat[best_alpha + 1][best_beta + 1]>>

\* compute_approximation_value up to the choice of the S-box input: the six
\* bits of E(R15) that enter S-box sbox_index.
ApproximationInput(C, sbox_index) ==
    LET after_ip_inv == permute(C, IP)
        R16          == PySliceTo(after_ip_inv, 32)
        L16          == PySliceFrom(after_ip_inv, 32)
        R15          == L16
        expanded_R15 == permute(R15, E)
        start        == sbox_index * 6
    IN  PySlice(expanded_R15, start, start + 6)

\* compute_approximation_value from the XOR with the guess on: 0 when the
\* parities of the masked S-box input and output agree, else 1.
ApproximationValue(input_bits, subkey_guess, sbox_index, alpha, beta) ==
    LET xored         == xor(input_bits, subkey_guess)
        xored_int     == bits_to_int(xored)
        row           == 2 * (Shr(xored_int, 5) % 2) + (xored_int % 2)
        col           == Shr(xored_int, 1) % 16
        sbox_output   == SBoxAt(sbox_index, row, col)
        input_parity  == parity(BitAnd(xored_int, alpha))
        output_parity == parity(BitAnd(sbox_output, beta))
    IN  IF input_parity = output_parity THEN 0 ELSE 1

compute_approximation_value(C, subkey_guess, sbox_index, alpha, beta) ==
    ApproximationValue(ApproximationInput(C, sbox_index), subkey_guess, sbox_index, alpha, beta)

\* The inner loop of LinearAttack.attack_sbox for one pair: the guesses of
\* range(64), in order, for which the approximation holds.  The step of
\* compute_approximation_value that does not depend on the guess is
\* evaluated once per ciphertext.
LinearMatches(pair, sbox_index, alpha, beta) ==
    LET input_bits == ApproximationInput(pair[2], sbox_index)
    IN  SelectSeq(AllGuesses, LAMBDA key_guess :
            ApproximationValue(input_bits, int_to_bits(key_guess, 6),
                               sbox_index, alpha, beta) = 0)

\* for plaintext, ciphertext in pairs: counters after the first n pairs.
RECURSIVE LinearCountPairs(_, _, _, _, _)
LinearCountPairs(pairs, sbox_index, alpha, beta, n) ==
    IF n = 0 THEN <<>>
    ELSE DictIncrementAll(LinearCountPairs(pairs, sbox_index, alpha, beta, n - 1),
                          LinearMatches(pairs[n], sbox_index, alpha, beta))

\* best_key and max_deviation after the loop over counters.items().  The
\* loop replaces the best key only by one of strictly larger deviation
\* abs(count - N // 2), so it ends with the first key, in the order of
\* iteration, whose deviation no key of counters exceeds, and with (0, 0)
\* when no key of counters has a deviation above 0.
BestKeyLoop(counters, N) ==
    IF \A j \in 1..Len(counters) : Abs(counters[j][2] - (N \div 2)) = 0 THEN <<0, 0>>
    ELSE LET first == CHOOSE j \in 1..Len(counters) :
                 /\ \A m \in 1..Len(counters) :
                        Abs(counters[m][2] - (N \div 2)) <= Abs(counters[j][2] - (N \div 2))
                 /\ \A m \in 1..(j - 1) :
                        Abs(counters[m][2] - (N \div 2)) < Abs(counters[j][2] - (N \div 2))
         IN  <<counters[first][1], Abs(counters[first][2] - (N \div 2))>>

\* The line LinearAttack.attack_sbox prints: the masks, |LAT| and the bias
\* |LAT| / 64 as its numerator and denominator.
MaskLine(sbox_index, mask) ==
    <<"S-blok", sbox_index + 1, "wybrane maski", mask[1], mask[2],
      "|LAT|", Abs(mask[3]), "bias", <<Abs(mask[3]), 64>> >>

\* LinearAttack.attack_sbox from the chosen masks on: (best_key, counters)
\* and the line it prints.
LinearAttackWith(pairs, sbox_index, mask) ==
    LET N        == Len(pairs)
        counters == LinearCountPairs(pairs, sbox_index, mask[1], mask[2], N)
        best     == BestKeyLoop(counters, N)
    IN  <<best[1], counters, MaskLine(sbox_index, mask)>>

\* LinearAttack.attack_sbox(pairs, sbox_index), lats being self.lats.
linear_attack_sbox(lats, pairs, sbox_index) ==
    LinearAttackWith(pairs, sbox_index, best_lat_mask(lats[sbox_index + 1]))

\* The line run_attack prints for an S-box whose counters are not empty.
KeyLine(sbox_idx, best_key, counters, N) ==
    <<"S-blok", sbox_idx + 1, "klucz", best_key,
      "|T - N/2|", Abs(DictGet(counters, best_key) - (N \div 2))>>

\* The body of the loop of run_attack for one S-box, result being what
\* attack_sbox returned: the item of recovered_keys and the lines printed.
LinearRunStep(sbox_idx, result, N) ==
    <<<<sbox_idx, result[1]>>,
      IF Len(result[2]) > 0
      THEN <<result[3], KeyLine(sbox_idx, result[1], result[2], N)>>
      ELSE <<result[3]>> >>

\* recovered_keys[sbox_idx] = best_key and the prints of one turn of the loop.
LinearRunAppend(before, step) ==
    <<Append(before[1], step[1]), Append(before[2], step[2])>>

\* for sbox_idx in range(8) of run_attack: the dictionary recovered_keys and
\* the lines printed after the first n S-boxes.
RECURSIVE LinearRunLoop(_, _, _)
LinearRunLoop(lats, pairs, n) ==
    IF n = 0 THEN <<<<>>, <<>>>>
    ELSE LinearRunAppend(LinearRunLoop(lats, pairs, n - 1),
                         LinearRunStep(n - 1, linear_attack_sbox(lats, pairs, n - 1), Len(pairs)))

\* The assembly of the recovered subkey: the six bits of every recovered
\* guess, in the order of the S-boxes.
RECURSIVE SubkeyBits(_, _)
SubkeyBits(recovered_keys, n) ==
    IF n = 0 THEN <<>>
    ELSE SubkeyBits(recovered_keys, n - 1) \o int_to_bits(DictGet(recovered_keys, n - 1), 6)

\* LinearAttack.run_attack(pairs): the dictionary recovered_keys it returns
\* and what it prints: the number of pairs, the lines of every S-box and the
\* recovered subkey (its 48 bits).  The lines that are the same in every run
\* are left out.
linear_run_attack(lats, pairs) ==
    LET loop == LinearRunLoop(lats, pairs, 8)
    IN  <<loop[1],
          <<<<"Liczba par", Len(pairs)>>>> \o loop[2]
              \o <<<<"Odzyskany podklucz", SubkeyBits(loop[1], 8)>>>> >>

(***************************************************************************)
(* Inputs of the model                                                     *)
(***************************************************************************)
\* The fixed test vectors of run_des_tests.
test_vectors ==
    << [key       |-> <<"1","3","3","4","5","7","7","9","9","B","B","C","D","F","F","1">>,
        plaintext |-> <<"0","1","2","3","4","5","6","7","8","9","A","B","C","D","E","F">>,
        expected  |-> <<"8","5","E","8","1","3","5","4","0","F","0","A","B","4","0","5">>],
       [key       |-> <<"0","E","3","2","9","2","3","2","E","A","6","D","0","D","7","3">>,
        plaintext |-> <<"8","7","8","7","8","7","8","7","8","7","8","7","8","7","8","7">>,
        expected  |-> <<"0","0","0","0","0","0","0","0","0","0","0","0","0","0","0","0">>],
       [key       |-> <<"0","0","0","0","0","0","0","0","0","0","0","0","0","0","0","0">>,
        plaintext |-> <<"0","0","0","0","0","0","0","0","0","0","0","0","0","0","0","0">>,
        expected  |-> <<"8","C","A","6","4","D","E","9","C","1","B","1","2","3","A","7">>] >>

\* Seeds of the generated blocks: 0..MaxSeed.
MaxSeed == 3

\* A generated 64-bit block: a fixed scramble of the seed, one per seed.
BlockOf(seed) ==
    [k \in 1..64 |-> ((k * k * (seed + 1) + (k \div (seed + 2)) + (seed * k) \div 3) \div 2) % 2]

\* A generated 16-digit hex string.
HexOf(seed) ==
    [k \in 1..16 |-> HexUpper[((k * k * (seed + 2) + 7 * seed + (k \div (seed + 1))) % 16) + 1]]

Blocks == {BlockOf(seed) : seed \in 0..MaxSeed}

\* The plaintext of the first test vector written with lower-case digits,
\* which int(s, 16) reads as the same number.
LowerCaseHex == [k \in 1..16 |-> HexLower[k]]

HexInputs ==
    {HexOf(seed) : seed \in 0..MaxSeed}
        \cup {test_vectors[v].key : v \in 1..3}
        \cup {test_vectors[v].plaintext : v \in 1..3}
        \cup {LowerCaseHex}

\* key_hex of demonstrate_attack: 16 draws of random.choice after
\* random.seed(42).
DemoKeyHex == <<"3","0","8","7","7","4","3","2","D","1","0","2","6","7","0","6">>

\* Largest number of pairs an attack is given.
MaxPairs == 2

\* Seeds of the blocks random.randint produces for the pairs: 0..MaxDrawn.
MaxDrawn == 1

DrawnBlocks == {BlockOf(seed) : seed \in 0..MaxDrawn}

\* Longest list of pairs the linear session generates (num_pairs of
\* demonstrate_attack).
MaxLinPairs == 2

\* Seeds of the blocks random.randint produces for them: 0..MaxLinDrawn.
MaxLinDrawn == 2

LinDrawnBlocks == {BlockOf(seed) : seed \in 0..MaxLinDrawn}

\* Largest num_pairs of a demonstration (500 and 1000 in the source).
MaxDemoPairs == 2

\* Seeds of the blocks the seeded random module yields: 0..MaxStreamSeed.
MaxStreamSeed == 2

\* The streams of blocks [random.randint(0, 1) for _ in range(64)] the
\* random module can yield once it is seeded and the key is drawn.
RandomStreams == [1..MaxDemoPairs -> {BlockOf(seed) : seed \in 0..MaxStreamSeed}]

\* top_n of find_best_differentials: the small values, demonstrate_ddt's 5
\* among them, and the number 63 * 16 of entries with delta_in # 0.
MaxTopN == 8

TopNs == 0..MaxTopN \cup {63 * 16}

\* Widest of the short blocks the bit primitives are applied to.
MaxWidth == 4

\* Every block of 1..MaxWidth bits.
ShortBlocks == UNION {[1..w -> {0, 1}] : w \in 1..MaxWidth}

\* Largest n passed to left_rotate; the key schedule passes 1 and 2.
MaxRotate == 6

\* Longest table passed to permute with the short blocks.
MaxTableLen == 2

\* Tables of permute over the short blocks: entries from 0, one below the
\* first position, to MaxWidth + 1, one above the last.
ShortTables == UNION {[1..n -> 0..(MaxWidth + 1)] : n \in 1..MaxTableLen}

\* The 28-bit halves generate_subkeys rotates, for the generated keys.
KeyHalves ==
    {PySliceTo(permute(BlockOf(seed), PC1), 28) : seed \in 0..MaxSeed}
        \cup {PySliceFrom(permute(BlockOf(seed), PC1), 28) : seed \in 0..MaxSeed}

\* Strings passed to hex_to_bits: the 16-digit inputs, their prefixes of
\* every length, and the prefixes written with a leading 0x or with a space
\* after the first digit.
HexStrings ==
    LET prefixes == {PySliceTo(HexOf(seed), n) : seed \in 0..MaxSeed, n \in 1..16}
    IN  HexInputs \cup prefixes
            \cup {<<"0", "x">> \o s : s \in prefixes}
            \cup {<<s[1], " ">> \o Tail(s) : s \in prefixes}

\* The key with the bits at the given positions (1 = MSB) complemented.
FlipBits(bits, positions) ==
    [k \in 1..Len(bits) |-> IF k \in positions THEN 1 - bits[k] ELSE bits[k]]

\* Positions in which the second key of a pair differs from the first: one
\* of the positions 8, 16, ..., 64, all eight of them, or position 1.
KeyFlips == {{8 * j} : j \in 1..8} \cup {{8 * j : j \in 1..8}} \cup {{1}}

(***************************************************************************)
(* The demonstrations as main.py calls them                                *)
(***************************************************************************)
\* num_rounds: int = 4, the default of demonstrate_attack and of --rounds.
DefaultRounds == 4

\* if num_rounds != 4: ... num_rounds = 4
DemoForcedRounds(num_rounds) == IF num_rounds # 4 THEN 4 ELSE num_rounds

\* The loop of linear_attack.demonstrate_attack that generates the pairs:
\* (plaintext, ciphertext) for every drawn plaintext, encrypted with
\* des_encrypt_block_rounds(plaintext, key_bits, num_rounds=num_rounds).
LinearDemoPairs(key_bits, drawn, num_rounds) ==
    SubSeq([k \in 1..Len(drawn) |->
               <<drawn[k], des_encrypt_block_rounds(drawn[k], key_bits, num_rounds)[1]>>],
           1, Len(drawn))

\* The verification step of demonstrate_attack: the number of S-boxes for
\* which the recovered guess is the six bits of the true subkey K4.
DemoVerification(key_bits, recovered_keys) ==
    LET true_k4 == generate_subkeys(key_bits)[4]
    IN  Cardinality({i \in 0..7 :
            bits_to_int(PySlice(true_k4, i * 6, (i + 1) * 6)) = DictGet(recovered_keys, i)})

\* The keyword parameters the two demonstrate_attack functions declare:
\* def demonstrate_attack() and def demonstrate_attack(num_rounds: int = 4).
DifferentialDemoParameters == {}

LinearDemoParameters == {"num_rounds"}

\* A call f(**keywords) of a function that declares parameters raises
\* TypeError when a keyword is not among them.
RaisesTypeError(keywords, parameters) == ~(keywords \subseteq parameters)

\* run_des_tests: all_passed, ciphertext and decrypted being computed once
\* per vector.
run_des_tests ==
    \A i \in 1..Len(test_vectors) :
        \A tv \in {test_vectors[i]} :
        \A c \in {encrypt(tv.plaintext, tv.key)} :
        \A d \in {decrypt(c, tv.key)} :
            c = tv.expected /\ d = tv.plaintext

\* The values of --rounds of the model: below 4, the default, and the 16
\* rounds from which main.py warns that the attack is impractical.
RoundsArgs == {3, 4, 16}

\* The command lines: every combination of the switches of main.py.
CommandLines ==
    [test_des : BOOLEAN, differential : BOOLEAN, linear : BOOLEAN,
     analyze_ddt : BOOLEAN, analyze_lat : BOOLEAN, all : BOOLEAN, rounds : RoundsArgs]

\* Number of Feistel rounds of DES: range(16) in the block functions.
NumRounds == 16

(***************************************************************************)
(* State                                                                   *)
(***************************************************************************)
VARIABLES
    des_pc,          \* position of the DES session: start, encrypted, decrypted, rounds
    plaintext,       \* block-level input: the 64-bit plaintext (<<>> in a hex session)
    key,             \* block-level input: the 64-bit key
    ciphertext,      \* result of des_encrypt_block
    decrypted,       \* result of des_decrypt_block
    num_rounds,      \* argument of the last des_encrypt_block_rounds call
    rounds_result,   \* its result (ciphertext, L, R)
    plaintext_hex,   \* hex-level input (<<>> in a block session)
    key_hex,         \* hex-level input
    ciphertext_hex,  \* result of encrypt
    decrypted_hex    \* result of decrypt

VARIABLES
    diff_pc,               \* position of the differential session
    key_bits,              \* the key of the oracle (demonstrate_attack)
    diff_pairs,            \* the collected tuples (P, P', C, C')
    sbox_index,            \* arguments of the last attack_sbox call
    expected_output_diff,
    best_key,              \* its result (best_key, scores)
    scores,
    recovered_keys,        \* dictionary returned by run_attack
    diff_printed,          \* the line run_attack printed for each S-box
    diff_num_pairs,        \* num_pairs passed to collect_pairs
    oracle_calls           \* the blocks oracle_func was called on, in order

VARIABLES
    lin_pc,                \* position of the linear session
    lin_key_bits,          \* the key the pairs are encrypted under (demonstrate_attack)
    lats,                  \* self.lats of the LinearAttack
    lin_pairs,             \* the generated pairs (plaintext, ciphertext)
    lin_sbox_index,        \* argument of the last attack_sbox call
    lin_best_key,          \* its result (best_key, counters)
    lin_counters,
    lin_recovered_keys,    \* dictionary returned by run_attack
    lin_printed,           \* what the last call printed
    lin_earlier            \* <<pairs, recovered_keys, printed>> of the run before, if any

VARIABLES
    demo_pc,               \* position of demonstrate_attack
    demo_attack,           \* which module's demonstrate_attack runs
    demo_num_pairs,        \* its num_pairs
    random_stream,         \* the blocks the random module yields after seed(42) and the key
    random_drawn,          \* state of the random module: blocks drawn since it was seeded
    demo_key_bits,         \* key_bits of the demonstration
    demo_plaintexts,       \* the plaintexts P drawn for the pairs, in order
    demo_recovered_keys,   \* recovered_keys returned by run_attack
    demo_earlier           \* <<plaintexts, recovered_keys>> of the run before, if any

VARIABLES
    main_pc,               \* position of main.py: start, the phase it is at, exited
    args,                  \* the parsed command line
    des_ok,                \* what run_des_tests returned
    main_log,              \* what the driver has done: <<event, phase>> in order
    main_runs,             \* the attack demonstrations that reached their verification
    exit_code              \* exit code of the process, -1 while it runs

VARIABLES
    an_pc,                 \* position of the table analysis: idle, start, ddt, best, stats, lat, mask
    an_sbox,               \* index 0..7 of the S-box whose tables are computed
    an_ddt,                \* ddt = compute_ddt(sbox)
    an_top_n,              \* top_n passed to find_best_differentials
    an_best,               \* best = find_best_differentials(ddt, top_n)
    an_nonzero,            \* nonzero = np.count_nonzero(ddt)
    an_max_val,            \* max_val = np.max(ddt[1:, :])
    an_lat,                \* lat = compute_lat(sbox)
    an_mask                \* best_lat_mask(lat)

VARIABLES
    prim_pc,               \* position of a call of a des.py primitive: idle, start, returned
    prim_fn,               \* the function called
    prim_args,             \* its arguments
    prim_result            \* what it returned, or the error it raised

des_vars == <<des_pc, plaintext, key, ciphertext, decrypted, num_rounds, rounds_result,
              plaintext_hex, key_hex, ciphertext_hex, decrypted_hex>>

diff_vars == <<diff_pc, key_bits, diff_pairs, sbox_index, expected_output_diff, best_key, scores,
               recovered_keys, diff_printed, diff_num_pairs, oracle_calls>>

lin_vars == <<lin_pc, lin_key_bits, lats, lin_pairs, lin_sbox_index, lin_best_key, lin_counters,
              lin_recovered_keys, lin_printed, lin_earlier>>

demo_vars == <<demo_pc, demo_attack, demo_num_pairs, random_stream, random_drawn, demo_key_bits,
               demo_plaintexts, demo_recovered_keys, demo_earlier>>

main_vars == <<main_pc, args, des_ok, main_log, main_runs, exit_code>>

an_vars == <<an_pc, an_sbox, an_ddt, an_top_n, an_best, an_nonzero, an_max_val, an_lat, an_mask>>

prim_vars == <<prim_pc, prim_fn, prim_args, prim_result>>

vars == <<des_vars, diff_vars, lin_vars, demo_vars, main_vars, an_vars, prim_vars>>

NoRounds == <<<<>>, <<>>, <<>>>>

(***************************************************************************)
(* DES session: the block functions and the hex functions applied to the   *)
(* chosen inputs                                                           *)
(***************************************************************************)
InitDes ==
    /\ des_pc = "start"
    /\ \/ /\ plaintext \in Blocks
          /\ key \in Blocks
          /\ plaintext_hex = <<>>
          /\ key_hex = <<>>
       \/ /\ plaintext = <<>>
          /\ key = <<>>
          /\ plaintext_hex \in HexInputs
          /\ key_hex \in HexInputs
    /\ ciphertext = <<>>
    /\ decrypted = <<>>
    /\ num_rounds = 0
    /\ rounds_result = NoRounds
    /\ ciphertext_hex = <<>>
    /\ decrypted_hex = <<>>

\* ciphertext = des_encrypt_block(plaintext, key)
EncryptBlock ==
    /\ des_pc = "start"
    /\ plaintext # <<>>
    /\ ciphertext' = des_encrypt_block(plaintext, key)
    /\ des_pc' = "encrypted"
    /\ UNCHANGED <<plaintext, key, decrypted, num_rounds, rounds_result,
                   plaintext_hex, key_hex, ciphertext_hex, decrypted_hex>>
    /\ UNCHANGED <<diff_vars, lin_vars, demo_vars, main_vars, an_vars, prim_vars>>

\* decrypted = des_decrypt_block(ciphertext, key)
DecryptBlock ==
    /\ des_pc = "encrypted"
    /\ plaintext # <<>>
    /\ decrypted' = des_decrypt_block(ciphertext, key)
    /\ des_pc' = "decrypted"
    /\ UNCHANGED <<plaintext, key, ciphertext, num_rounds, rounds_result,
                   plaintext_hex, key_hex, ciphertext_hex, decrypted_hex>>
    /\ UNCHANGED <<diff_vars, lin_vars, demo_vars, main_vars, an_vars, prim_vars>>

\* rounds_result = des_encrypt_block_rounds(plaintext, key, num_rounds=n)
EncryptBlockRounds ==
    /\ des_pc = "encrypted"
    /\ plaintext # <<>>
    /\ \E n \in 1..NumRounds :
          /\ num_rounds' = n
          /\ rounds_result' = des_encrypt_block_rounds(plaintext, key, n)
    /\ des_pc' = "rounds"
    /\ UNCHANGED <<plaintext, key, ciphertext, decrypted,
                   plaintext_hex, key_hex, ciphertext_hex, decrypted_hex>>
    /\ UNCHANGED <<diff_vars, lin_vars, demo_vars, main_vars, an_vars, prim_vars>>

\* ciphertext = encrypt(tv["plaintext"], tv["key"])
EncryptHex ==
    /\ des_pc = "start"
    /\ plaintext_hex # <<>>
    /\ ciphertext_hex' = encrypt(plaintext_hex, key_hex)
    /\ des_pc' = "encrypted"
    /\ UNCHANGED <<plaintext, key, ciphertext, decrypted, num_rounds, rounds_result,
                   plaintext_hex, key_hex, decrypted_hex>>
    /\ UNCHANGED <<diff_vars, lin_vars, demo_vars, main_vars, an_vars, prim_vars>>

\* decrypted = decrypt(ciphertext, tv["key"])
DecryptHex ==
    /\ des_pc = "encrypted"
    /\ plaintext_hex # <<>>
    /\ decrypted_hex' = decrypt(ciphertext_hex, key_hex)
    /\ des_pc' = "decrypted"
    /\ UNCHANGED <<plaintext, key, ciphertext, decrypted, num_rounds, rounds_result,
                   plaintext_hex, key_hex, ciphertext_hex>>
    /\ UNCHANGED <<diff_vars, lin_vars, demo_vars, main_vars, an_vars, prim_vars>>

NextDes ==
    \/ EncryptBlock
    \/ DecryptBlock
    \/ EncryptBlockRounds
    \/ EncryptHex
    \/ DecryptHex

\* No DES session runs.
DesIdle ==
    /\ des_pc = "idle"
    /\ plaintext = <<>>
    /\ key = <<>>
    /\ plaintext_hex = <<>>
    /\ key_hex = <<>>
    /\ ciphertext = <<>>
    /\ decrypted = <<>>
    /\ num_rounds = 0
    /\ rounds_result = NoRounds
    /\ ciphertext_hex = <<>>
    /\ decrypted_hex = <<>>

(***************************************************************************)
(* Differential session: collect_pairs and attack_sbox on the collected    *)
(* pairs, or run_attack as a whole                                         *)
(***************************************************************************)
\* No attack has run: the results are empty.
DiffFresh ==
    /\ diff_pairs = <<>>
    /\ sbox_index = 0
    /\ expected_output_diff = 0
    /\ best_key = 0
    /\ scores = <<>>
    /\ recovered_keys = <<>>
    /\ diff_printed = <<>>
    /\ diff_num_pairs = 0
    /\ oracle_calls = <<>>

DiffIdle == diff_pc = "idle" /\ key_bits = <<>> /\ DiffFresh

\* demonstrate_attack up to the call of run_attack.
InitDiff == diff_pc = "start" /\ key_bits = hex_to_bits(DemoKeyHex) /\ DiffFresh

\* pairs = attack.collect_pairs(oracle, num_pairs, delta_L, delta_R)
DiffCollectPairs ==
    /\ diff_pc = "start"
    /\ \E num_pairs \in 0..MaxPairs : \E drawn \in [1..num_pairs -> DrawnBlocks] :
          /\ diff_num_pairs' = num_pairs
          /\ diff_pairs' = collect_pairs(key_bits, drawn, input_diff[1], input_diff[2])
          /\ oracle_calls' = OracleCalls(drawn, input_diff[1], input_diff[2])
    /\ diff_pc' = "collected"
    /\ UNCHANGED <<key_bits, sbox_index, expected_output_diff, best_key, scores,
                   recovered_keys, diff_printed>>
    /\ UNCHANGED <<des_vars, lin_vars, demo_vars, main_vars, an_vars, prim_vars>>

\* best_key, scores = attack.attack_sbox(pairs, i, e)
DiffAttackSbox ==
    /\ diff_pc = "collected"
    /\ \E i \in 0..7, e \in 0..15 :
          /\ sbox_index' = i
          /\ expected_output_diff' = e
          /\ \E result \in {attack_sbox(diff_pairs, i, e)} :
                /\ best_key' = result[1]
                /\ scores' = result[2]
    /\ diff_pc' = "attacked"
    /\ UNCHANGED <<key_bits, diff_pairs, recovered_keys, diff_printed, diff_num_pairs,
                   oracle_calls>>
    /\ UNCHANGED <<des_vars, lin_vars, demo_vars, main_vars, an_vars, prim_vars>>

\* recovered_keys = attack.run_attack(oracle, num_pairs)
DiffRunAttack ==
    /\ diff_pc = "start"
    /\ \E num_pairs \in 0..MaxPairs : \E drawn \in [1..num_pairs -> DrawnBlocks] :
          \E run \in {run_attack(key_bits, drawn)} :
              /\ diff_pairs' = run[1]
              /\ recovered_keys' = run[2]
              /\ diff_printed' = run[3]
              /\ diff_num_pairs' = num_pairs
              /\ oracle_calls' = OracleCalls(drawn, input_diff[1], input_diff[2])
    /\ diff_pc' = "done"
    /\ UNCHANGED <<key_bits, sbox_index, expected_output_diff, best_key, scores>>
    /\ UNCHANGED <<des_vars, lin_vars, demo_vars, main_vars, an_vars, prim_vars>>

NextDiff ==
    \/ DiffCollectPairs
    \/ DiffAttackSbox
    \/ DiffRunAttack

(***************************************************************************)
(* Linear session: the pairs are generated one by one; attack_sbox is      *)
(* called on the pairs generated so far, or run_attack as a whole, which a *)
(* session may do a second time on a second list of pairs                  *)
(***************************************************************************)
\* No attack has run: the results are empty.
LinFresh ==
    /\ lin_pairs = <<>>
    /\ lin_sbox_index = 0
    /\ lin_best_key = 0
    /\ lin_counters = <<>>
    /\ lin_recovered_keys = <<>>
    /\ lin_printed = <<>>
    /\ lin_earlier = <<>>

LinIdle == lin_pc = "idle" /\ lin_key_bits = <<>> /\ lats = <<>> /\ LinFresh

\* demonstrate_attack up to the generation of the pairs, with the tables
\* LinearAttack.__init__ computes.
InitLin ==
    /\ lin_pc = "collecting"
    /\ lin_key_bits = hex_to_bits(DemoKeyHex)
    /\ lats = compute_all_lats
    /\ LinFresh

\* One turn of the loop that generates the pairs: pairs.append((plaintext,
\* ciphertext)), drawn being the block random.randint produces.
LinCollectPair ==
    /\ lin_pc = "collecting"
    /\ Len(lin_pairs) < MaxLinPairs
    /\ \E drawn \in LinDrawnBlocks :
          lin_pairs' = Append(lin_pairs, <<drawn, oracle(lin_key_bits, drawn)>>)
    /\ UNCHANGED <<lin_pc, lin_key_bits, lats, lin_sbox_index, lin_best_key, lin_counters,
                   lin_recovered_keys, lin_printed, lin_earlier>>
    /\ UNCHANGED <<des_vars, diff_vars, demo_vars, main_vars, an_vars, prim_vars>>

\* best_key, counters = attack.attack_sbox(pairs, i)
LinAttackSbox ==
    /\ lin_pc = "collecting"
    /\ lin_earlier = <<>>
    /\ \E i \in 0..7 :
          /\ lin_sbox_index' = i
          /\ \E result \in {linear_attack_sbox(lats, lin_pairs, i)} :
                /\ lin_best_key' = result[1]
                /\ lin_counters' = result[2]
                /\ lin_printed' = <<result[3]>>
    /\ lin_pc' = "attacked"
    /\ UNCHANGED <<lin_key_bits, lats, lin_pairs, lin_recovered_keys, lin_earlier>>
    /\ UNCHANGED <<des_vars, diff_vars, demo_vars, main_vars, an_vars, prim_vars>>

\* recovered_keys = attack.run_attack(pairs)
LinRunAttack ==
    /\ lin_pc = "collecting"
    /\ \E run \in {linear_run_attack(lats, lin_pairs)} :
          /\ lin_recovered_keys' = run[1]
          /\ lin_printed' = run[2]
    /\ lin_pc' = "done"
    /\ UNCHANGED <<lin_key_bits, lats, lin_pairs, lin_sbox_index, lin_best_key, lin_counters,
                   lin_earlier>>
    /\ UNCHANGED <<des_vars, diff_vars, demo_vars, main_vars, an_vars, prim_vars>>

\* The demonstration is started once more: the pairs of the run that has
\* ended, what it returned and what it printed are kept as lin_earlier.
LinStartAgain ==
    /\ lin_pc = "done"
    /\ lin_earlier = <<>>
    /\ lin_earlier' = <<lin_pairs, lin_recovered_keys, lin_printed>>
    /\ lin_pairs' = <<>>
    /\ lin_recovered_keys' = <<>>
    /\ lin_printed' = <<>>
    /\ lin_pc' = "collecting"
    /\ UNCHANGED <<lin_key_bits, lats, lin_sbox_index, lin_best_key, lin_counters>>
    /\ UNCHANGED <<des_vars, diff_vars, demo_vars, main_vars, an_vars, prim_vars>>

NextLin ==
    \/ LinCollectPair
    \/ LinAttackSbox
    \/ LinRunAttack
    \/ LinStartAgain

(***************************************************************************)
(* Demonstration session: demonstrate_attack of either module, run once    *)
(* and once more, with the state of the random module it draws from        *)
(***************************************************************************)
\* The random module without reseeding: the stream goes on where it is.
SeedKeepsState(drawn) == drawn

\* random.seed(42): the stream of the generator starts from its beginning,
\* whatever was drawn before.
seed(drawn) == 0

\* The next n blocks of the stream, as random.randint yields them.
NextBlocks(n) == SubSeq(random_stream, random_drawn + 1, random_drawn + n)

\* No demonstration has run: the results are empty.
DemoFresh ==
    /\ demo_key_bits = <<>>
    /\ demo_plaintexts = <<>>
    /\ demo_recovered_keys = <<>>
    /\ demo_earlier = <<>>

DemoIdle ==
    /\ demo_pc = "idle"
    /\ demo_attack = "none"
    /\ demo_num_pairs = 0
    /\ random_stream = <<>>
    /\ random_drawn = 0
    /\ DemoFresh

\* A process that is to call demonstrate_attack of one of the two modules.
InitDemo ==
    /\ demo_pc = "start"
    /\ demo_attack \in {"differential", "linear"}
    /\ demo_num_pairs \in 1..MaxDemoPairs
    /\ random_stream \in RandomStreams
    /\ random_drawn = 0
    /\ DemoFresh

\* random.seed(42); key_hex = ''.join(random.choice(...)); key_bits =
\* hex_to_bits(key_hex)
DemoSeedAndKey ==
    /\ demo_pc = "start"
    /\ random_drawn' = seed(random_drawn)
    /\ demo_key_bits' = hex_to_bits(DemoKeyHex)
    /\ demo_pc' = "keyed"
    /\ UNCHANGED <<demo_attack, demo_num_pairs, random_stream, demo_plaintexts,
                   demo_recovered_keys, demo_earlier>>
    /\ UNCHANGED <<des_vars, diff_vars, lin_vars, main_vars, an_vars, prim_vars>>

\* differential_attack.demonstrate_attack from the oracle on:
\* attack.run_attack(oracle, num_pairs), whose collect_pairs draws the
\* plaintexts.
DemoDifferentialRun ==
    /\ demo_pc = "keyed"
    /\ demo_attack = "differential"
    /\ random_drawn + demo_num_pairs <= Len(random_stream)
    /\ \E drawn \in {NextBlocks(demo_num_pairs)} :
       \E run \in {run_attack(demo_key_bits, drawn)} :
          /\ demo_plaintexts' = [k \in 1..Len(run[1]) |-> run[1][k][1]]
          /\ demo_recovered_keys' = run[2]
    /\ random_drawn' = random_drawn + demo_num_pairs
    /\ demo_pc' = "done"
    /\ UNCHANGED <<demo_attack, demo_num_pairs, random_stream, demo_key_bits, demo_earlier>>
    /\ UNCHANGED <<des_vars, diff_vars, lin_vars, main_vars, an_vars, prim_vars>>

\* linear_attack.demonstrate_attack from the generation of the pairs on:
\* the loop that draws the plaintexts and encrypts them, then
\* attack.run_attack(pairs).
DemoLinearRun ==
    /\ demo_pc = "keyed"
    /\ demo_attack = "linear"
    /\ random_drawn + demo_num_pairs <= Len(random_stream)
    /\ \E drawn \in {NextBlocks(demo_num_pairs)} :
       \E pairs \in {LinearDemoPairs(demo_key_bits, drawn, DemoForcedRounds(DefaultRounds))} :
       \E run \in {linear_run_attack(compute_all_lats, pairs)} :
          /\ demo_plaintexts' = [k \in 1..Len(pairs) |-> pairs[k][1]]
          /\ demo_recovered_keys' = run[1]
    /\ random_drawn' = random_drawn + demo_num_pairs
    /\ demo_pc' = "done"
    /\ UNCHANGED <<demo_attack, demo_num_pairs, random_stream, demo_key_bits, demo_earlier>>
    /\ UNCHANGED <<des_vars, diff_vars, lin_vars, main_vars, an_vars, prim_vars>>

\* demonstrate_attack is called once more in the same process: what the
\* run that has ended drew and returned is kept as demo_earlier; the random
\* module is in the state the run left it in.
DemoStartAgain ==
    /\ demo_pc = "done"
    /\ demo_earlier = <<>>
    /\ demo_earlier' = <<demo_plaintexts, demo_recovered_keys>>
    /\ demo_key_bits' = <<>>
    /\ demo_plaintexts' = <<>>
    /\ demo_recovered_keys' = <<>>
    /\ demo_pc' = "start"
    /\ UNCHANGED <<demo_attack, demo_num_pairs, random_stream, random_drawn>>
    /\ UNCHANGED <<des_vars, diff_vars, lin_vars, main_vars, an_vars, prim_vars>>

NextDemo ==
    \/ DemoSeedAndKey
    \/ DemoDifferentialRun
    \/ DemoLinearRun
    \/ DemoStartAgain

(***************************************************************************)
(* Driver session: main.py from the parsed command line to the exit of the *)
(* process, one step per phase                                             *)
(***************************************************************************)
MainIdle ==
    /\ main_pc = "idle"
    /\ args = <<>>
    /\ des_ok = FALSE
    /\ main_log = <<>>
    /\ main_runs = <<>>
    /\ exit_code = -1

\* args = parser.parse_args()
InitMain ==
    /\ main_pc = "start"
    /\ args \in CommandLines
    /\ des_ok = FALSE
    /\ main_log = <<>>
    /\ main_runs = <<>>
    /\ exit_code = -1

\* The events of a phase that ran to its end.
PhaseDone(phase) == <<<<"start", phase>>, <<"end", phase>>>>

\* print of the warning that 16 rounds are impractical, which run_all and
\* main make before an attack demonstration.
ImpracticalWarning(phase) ==
    IF args.rounds >= 16 THEN <<<<"impractical", phase>>>> ELSE <<>>

\* run_differential_attack and run_linear_attack up to the call of
\* demonstrate_attack: the warning for a round count other than 4, and the
\* round count passed on.
ForcedWarning(phase) ==
    IF args.rounds # 4 THEN <<<<"warning", phase>>>> ELSE <<>>

DriverForcedRounds(rounds) == IF rounds # 4 THEN 4 ELSE rounds

\* if not any([...]): args.all = True
MainParse ==
    /\ main_pc = "start"
    /\ args' = [args EXCEPT !.all =
                   IF ~(args.test_des \/ args.differential \/ args.linear
                           \/ args.analyze_ddt \/ args.analyze_lat \/ args.all)
                   THEN TRUE ELSE @]
    /\ main_pc' = "des_tests"
    /\ UNCHANGED <<des_ok, main_log, main_runs, exit_code>>
    /\ UNCHANGED <<des_vars, diff_vars, lin_vars, demo_vars, an_vars, prim_vars>>

\* run_des_tests(), called by run_all or for --test-des; run_all returns
\* when the tests have not passed, and main returns after it.
MainDesTests ==
    /\ main_pc = "des_tests"
    /\ IF args.all \/ args.test_des
       THEN /\ des_ok' = run_des_tests
            /\ main_log' = main_log \o PhaseDone("des_tests")
            /\ IF args.all /\ ~des_ok'
               THEN main_pc' = "exited" /\ exit_code' = 0
               ELSE main_pc' = "ddt" /\ UNCHANGED exit_code
       ELSE /\ main_pc' = "ddt"
            /\ UNCHANGED <<des_ok, main_log, exit_code>>
    /\ UNCHANGED <<args, main_runs>>
    /\ UNCHANGED <<des_vars, diff_vars, lin_vars, demo_vars, an_vars, prim_vars>>

\* run_differential_analysis(), called by run_all or for --analyze-ddt
MainDifferentialAnalysis ==
    /\ main_pc = "ddt"
    /\ main_log' = IF args.all \/ args.analyze_ddt
                   THEN main_log \o PhaseDone("ddt") ELSE main_log
    /\ main_pc' = "differential"
    /\ UNCHANGED <<args, des_ok, main_runs, exit_code>>
    /\ UNCHANGED <<des_vars, diff_vars, lin_vars, demo_vars, an_vars, prim_vars>>

\* run_differential_attack(args.rounds), called by run_all or for
\* --differential: demonstrate_attack(num_rounds=num_rounds) of
\* differential_attack.py.  An exception no one catches ends the process
\* with exit code 1.
MainDifferentialAttack ==
    /\ main_pc = "differential"
    /\ IF args.all \/ args.differential
       THEN LET before == main_log \o ImpracticalWarning("differential")
                            \o <<<<"start", "differential">>>>
                            \o ForcedWarning("differential")
            IN  IF RaisesTypeError({"num_rounds"}, DifferentialDemoParameters)
                THEN /\ main_log' = Append(before, <<"TypeError", "differential">>)
                     /\ main_pc' = "exited"
                     /\ exit_code' = 1
                     /\ UNCHANGED main_runs
                ELSE /\ \E drawn \in RandomStreams :
                        \E key_bits_d \in {hex_to_bits(DemoKeyHex)} :
                        \E run \in {run_attack(key_bits_d, drawn)} :
                           main_runs' = Append(main_runs,
                               <<"differential", DemoRounds, run[1], run[2],
                                 DemoVerification(key_bits_d, run[2])>>)
                     /\ main_log' = Append(before, <<"end", "differential">>)
                     /\ main_pc' = "lat"
                     /\ UNCHANGED exit_code
       ELSE /\ main_pc' = "lat"
            /\ UNCHANGED <<main_log, main_runs, exit_code>>
    /\ UNCHANGED <<args, des_ok>>
    /\ UNCHANGED <<des_vars, diff_vars, lin_vars, demo_vars, an_vars, prim_vars>>

\* run_linear_analysis(), called by run_all or for --analyze-lat
MainLinearAnalysis ==
    /\ main_pc = "lat"
    /\ main_log' = IF args.all \/ args.analyze_lat
                   THEN main_log \o PhaseDone("lat") ELSE main_log
    /\ main_pc' = "linear"
    /\ UNCHANGED <<args, des_ok, main_runs, exit_code>>
    /\ UNCHANGED <<des_vars, diff_vars, lin_vars, demo_vars, an_vars, prim_vars>>

\* run_linear_attack(args.rounds), called by run_all or for --linear:
\* demonstrate_attack(num_rounds=num_rounds) of linear_attack.py, drawn
\* being the plaintexts random.randint produces.  A demonstration that
\* reaches its verification is entered in main_runs: <<attack, rounds of
\* the cipher, pairs, recovered_keys, matches of the verification>>.
MainLinearAttack ==
    /\ main_pc = "linear"
    /\ IF args.all \/ args.linear
       THEN LET before == main_log \o ImpracticalWarning("linear")
                            \o <<<<"start", "linear">>>>
                            \o ForcedWarning("linear")
            IN  IF RaisesTypeError({"num_rounds"}, LinearDemoParameters)
                THEN /\ main_log' = Append(before, <<"TypeError", "linear">>)
                     /\ main_pc' = "exited"
                     /\ exit_code' = 1
                     /\ UNCHANGED main_runs
                ELSE /\ \E drawn \in RandomStreams :
                        \E key_bits_l \in {hex_to_bits(DemoKeyHex)} :
                        \E rounds \in {DemoForcedRounds(DriverForcedRounds(args.rounds))} :
                        \E pairs \in {LinearDemoPairs(key_bits_l, drawn, rounds)} :
                        \E run \in {linear_run_attack(compute_all_lats, pairs)} :
                           main_runs' = Append(main_runs,
                               <<"linear", rounds, pairs, run[1],
                                 DemoVerification(key_bits_l, run[1])>>)
                     /\ main_log' = Append(before, <<"end", "linear">>)
                     /\ main_pc' = "end"
                     /\ UNCHANGED exit_code
       ELSE /\ main_pc' = "end"
            /\ UNCHANGED <<main_log, main_runs, exit_code>>
    /\ UNCHANGED <<args, des_ok>>
    /\ UNCHANGED <<des_vars, diff_vars, lin_vars, demo_vars, an_vars, prim_vars>>

\* main returns: the process exits with code 0.
MainExit ==
    /\ main_pc = "end"
    /\ main_pc' = "exited"
    /\ exit_code' = 0
    /\ UNCHANGED <<args, des_ok, main_log, main_runs>>
    /\ UNCHANGED <<des_vars, diff_vars, lin_vars, demo_vars, an_vars, prim_vars>>

NextMain ==
    \/ MainParse
    \/ MainDesTests
    \/ MainDifferentialAnalysis
    \/ MainDifferentialAttack
    \/ MainLinearAnalysis
    \/ MainLinearAttack
    \/ MainExit

(***************************************************************************)
(* Table analysis: compute_ddt, find_best_differentials and the statistics *)
(* of demonstrate_ddt, compute_lat and best_lat_mask, on one S-box of DES  *)
(***************************************************************************)
AnalysisIdle ==
    /\ an_pc = "idle"
    /\ an_sbox = 0
    /\ an_ddt = <<>>
    /\ an_top_n = 0
    /\ an_best = <<>>
    /\ an_nonzero = 0
    /\ an_max_val = 0
    /\ an_lat = <<>>
    /\ an_mask = <<>>

\* for i, sbox in enumerate(S_BOXES): the tables of any of the eight S-boxes.
InitAnalysis ==
    /\ an_pc = "start"
    /\ an_sbox \in 0..7
    /\ an_ddt = <<>>
    /\ an_top_n = 0
    /\ an_best = <<>>
    /\ an_nonzero = 0
    /\ an_max_val = 0
    /\ an_lat = <<>>
    /\ an_mask = <<>>

\* ddt = compute_ddt(sbox)
ComputeDdt ==
    /\ an_pc = "start"
    /\ an_ddt' = compute_ddt(S_BOXES[an_sbox + 1])
    /\ an_pc' = "ddt"
    /\ UNCHANGED <<an_sbox, an_top_n, an_best, an_nonzero, an_max_val, an_lat, an_mask>>
    /\ UNCHANGED <<des_vars, diff_vars, lin_vars, demo_vars, main_vars, prim_vars>>

\* best = find_best_differentials(ddt, top_n): demonstrate_ddt passes
\* top_n = 5; any top_n of TopNs is passed here.
FindBestDifferentials ==
    /\ an_pc = "ddt"
    /\ \E top_n \in TopNs :
          /\ an_top_n' = top_n
          /\ an_best' = find_best_differentials(an_ddt, top_n)
    /\ an_pc' = "best"
    /\ UNCHANGED <<an_sbox, an_ddt, an_nonzero, an_max_val, an_lat, an_mask>>
    /\ UNCHANGED <<des_vars, diff_vars, lin_vars, demo_vars, main_vars, prim_vars>>

\* nonzero = np.count_nonzero(ddt); max_val = np.max(ddt[1:, :])
DdtStatistics ==
    /\ an_pc = "ddt"
    /\ an_nonzero' = DdtCountNonzero(an_ddt)
    /\ an_max_val' = DdtMax(an_ddt)
    /\ an_pc' = "stats"
    /\ UNCHANGED <<an_sbox, an_ddt, an_top_n, an_best, an_lat, an_mask>>
    /\ UNCHANGED <<des_vars, diff_vars, lin_vars, demo_vars, main_vars, prim_vars>>

\* lat = compute_lat(sbox)
ComputeLat ==
    /\ an_pc = "start"
    /\ an_lat' = compute_lat(S_BOXES[an_sbox + 1])
    /\ an_pc' = "lat"
    /\ UNCHANGED <<an_sbox, an_ddt, an_top_n, an_best, an_nonzero, an_max_val, an_mask>>
    /\ UNCHANGED <<des_vars, diff_vars, lin_vars, demo_vars, main_vars, prim_vars>>

\* best_lat_mask(lat)
BestLatMask ==
    /\ an_pc = "lat"
    /\ an_mask' = best_lat_mask(an_lat)
    /\ an_pc' = "mask"
    /\ UNCHANGED <<an_sbox, an_ddt, an_top_n, an_best, an_nonzero, an_max_val, an_lat>>
    /\ UNCHANGED <<des_vars, diff_vars, lin_vars, demo_vars, main_vars, prim_vars>>

NextAnalysis ==
    \/ ComputeDdt
    \/ FindBestDifferentials
    \/ DdtStatistics
    \/ ComputeLat
    \/ BestLatMask

(***************************************************************************)
(* Primitive session: one call of left_rotate, permute, xor, hex_to_bits   *)
(* or generate_subkeys of des.py on chosen arguments                       *)
(***************************************************************************)
PrimIdle ==
    /\ prim_pc = "idle"
    /\ prim_fn = "none"
    /\ prim_args = <<>>
    /\ prim_result = <<>>

InitPrim ==
    /\ prim_pc = "start"
    /\ prim_fn = "none"
    /\ prim_args = <<>>
    /\ prim_result = <<>>

\* left_rotate(bits, n)
CallLeftRotate ==
    /\ prim_pc = "start"
    /\ \E bits \in ShortBlocks \cup KeyHalves : \E n \in 0..MaxRotate :
          /\ prim_args' = <<bits, n>>
          /\ prim_result' = left_rotate(bits, n)
    /\ prim_fn' = "left_rotate"
    /\ prim_pc' = "returned"
    /\ UNCHANGED <<des_vars, diff_vars, lin_vars, demo_vars, main_vars, an_vars>>

\* permute(bits, table)
CallPermute ==
    /\ prim_pc = "start"
    /\ \E bits \in ShortBlocks : \E table \in ShortTables :
          /\ prim_args' = <<bits, table>>
          /\ prim_result' = permute(bits, table)
    /\ prim_fn' = "permute"
    /\ prim_pc' = "returned"
    /\ UNCHANGED <<des_vars, diff_vars, lin_vars, demo_vars, main_vars, an_vars>>

\* xor(bits1, bits2)
CallXor ==
    /\ prim_pc = "start"
    /\ \E bits1 \in ShortBlocks : \E bits2 \in ShortBlocks :
          /\ prim_args' = <<bits1, bits2>>
          /\ prim_result' = xor(bits1, bits2)
    /\ prim_fn' = "xor"
    /\ prim_pc' = "returned"
    /\ UNCHANGED <<des_vars, diff_vars, lin_vars, demo_vars, main_vars, an_vars>>

\* hex_to_bits(hex_string)
CallHexToBits ==
    /\ prim_pc = "start"
    /\ \E hex_string \in HexStrings :
          /\ prim_args' = <<hex_string>>
          /\ prim_result' = hex_to_bits(hex_string)
    /\ prim_fn' = "hex_to_bits"
    /\ prim_pc' = "returned"
    /\ UNCHANGED <<des_vars, diff_vars, lin_vars, demo_vars, main_vars, an_vars>>

\* generate_subkeys(key) for two keys, and des_encrypt_block(plaintext, key)
\* under each of them: <<subkeys, subkeys of the other key, ciphertext,
\* ciphertext under the other key>>.
CallGenerateSubkeys ==
    /\ prim_pc = "start"
    /\ \E first \in Blocks : \E flips \in KeyFlips : \E block \in Blocks :
          \E other \in {FlipBits(first, flips)} :
              /\ prim_args' = <<first, other, block>>
              /\ prim_result' = <<generate_subkeys(first), generate_subkeys(other),
                                  des_encrypt_block(block, first),
                                  des_encrypt_block(block, other)>>
    /\ prim_fn' = "generate_subkeys"
    /\ prim_pc' = "returned"
    /\ UNCHANGED <<des_vars, diff_vars, lin_vars, demo_vars, main_vars, an_vars>>

NextPrim ==
    \/ CallLeftRotate
    \/ CallPermute
    \/ CallXor
    \/ CallHexToBits
    \/ CallGenerateSubkeys

(***************************************************************************)
(* Specifications: one per entry point of main.py                          *)
(***************************************************************************)
\* --test-des
InitDesOnly == InitDes /\ DiffIdle /\ LinIdle /\ DemoIdle /\ MainIdle /\ AnalysisIdle
    /\ PrimIdle

SpecDes == InitDesOnly /\ [][NextDes]_vars

\* --differential
InitDiffOnly == InitDiff /\ DesIdle /\ LinIdle /\ DemoIdle /\ MainIdle /\ AnalysisIdle
    /\ PrimIdle

SpecDiff == InitDiffOnly /\ [][NextDiff]_vars

\* --linear
InitLinOnly == InitLin /\ DesIdle /\ DiffIdle /\ DemoIdle /\ MainIdle /\ AnalysisIdle
    /\ PrimIdle

SpecLin == InitLinOnly /\ [][NextLin]_vars

\* demonstrate_attack of either module, twice in a process
InitDemoOnly == InitDemo /\ DesIdle /\ DiffIdle /\ LinIdle /\ MainIdle /\ AnalysisIdle
    /\ PrimIdle

SpecDemo == InitDemoOnly /\ [][NextDemo]_vars

\* python main.py with any switches
InitMainOnly == InitMain /\ DesIdle /\ DiffIdle /\ LinIdle /\ DemoIdle /\ AnalysisIdle
    /\ PrimIdle

SpecMain == InitMainOnly /\ [][NextMain]_vars

\* The table analysis alone.
InitAnalysisOnly ==
    InitAnalysis /\ DesIdle /\ DiffIdle /\ LinIdle /\ DemoIdle /\ MainIdle /\ PrimIdle

SpecAnalysis == InitAnalysisOnly /\ [][NextAnalysis]_vars

\* The calls of the primitives alone.
InitPrimOnly ==
    InitPrim /\ DesIdle /\ DiffIdle /\ LinIdle /\ DemoIdle /\ MainIdle /\ AnalysisIdle

SpecPrim == InitPrimOnly /\ [][NextPrim]_vars

\* Either attack session: the differential one or the linear one.
InitAttacks == InitDiffOnly \/ InitLinOnly

NextAttacks == NextDiff \/ NextLin

SpecAttacks == InitAttacks /\ [][NextAttacks]_vars

(***************************************************************************)
(* Properties of the DES core                                              *)
(***************************************************************************)
\* str.upper() of a hex string.
UpperCase(s) == [k \in 1..Len(s) |-> IF IsHexDigit(s[k]) THEN HexUpper[HexValue(s[k]) + 1] ELSE s[k]]

\* C1: decrypting the ciphertext of a block under the same key returns the
\* block: des_decrypt_block(des_encrypt_block(P, K), K) = P on 64-bit blocks
\* and decrypt(encrypt(p, k), k) = p on 16-digit hex strings.
RoundTrip ==
    des_pc = "decrypted" =>
        /\ plaintext # <<>> => decrypted = plaintext
        /\ plaintext_hex # <<>> => decrypted_hex = plaintext_hex

\* C1 as amended: des_decrypt_block(des_encrypt_block(P, K), K) = P on 64-bit
\* blocks, and decrypt(encrypt(p, k), k) is p written with upper-case digits
\* (so it is p itself when p holds no lower-case digit).
RoundTripUpperCase ==
    des_pc = "decrypted" =>
        /\ plaintext # <<>> => decrypted = plaintext
        /\ plaintext_hex # <<>> => decrypted_hex = UpperCase(plaintext_hex)

\* A lower-case hex string has been encrypted to something else and decrypted
\* to its upper-case form.
RoundTripWitness ==
    /\ des_pc = "decrypted"
    /\ plaintext_hex = LowerCaseHex
    /\ ciphertext_hex # plaintext_hex
    /\ decrypted_hex = test_vectors[1].plaintext
    /\ decrypted_hex # plaintext_hex

\* C2: encrypt returns the listed ciphertext for each of the three fixed
\* test vectors.
KnownAnswers ==
    \A v \in 1..3 :
        (/\ des_pc \in {"encrypted", "decrypted"}
         /\ plaintext_hex = test_vectors[v].plaintext
         /\ key_hex = test_vectors[v].key)
            => ciphertext_hex = test_vectors[v].expected

\* The third vector (the all-zero key and plaintext) has been encrypted.
KnownAnswersWitness ==
    /\ des_pc = "encrypted"
    /\ plaintext_hex = test_vectors[3].plaintext
    /\ key_hex = test_vectors[3].key
    /\ ciphertext_hex = test_vectors[3].expected

\* C3: des_encrypt_block_rounds with 16 rounds returns the ciphertext of
\* des_encrypt_block, and with R rounds its (L, R) is one Feistel round with
\* subkey K_R after the state of R - 1 rounds (the halves of IP(plaintext)
\* for R = 1), its ciphertext being FP of R followed by L.
RoundsRefineEncrypt ==
    des_pc = "rounds" =>
        LET permuted == permute(plaintext, IP)
            earlier  == des_encrypt_block_rounds(plaintext, key, num_rounds - 1)
            L_before == IF num_rounds = 1 THEN SubSeq(permuted, 1, 32) ELSE earlier[2]
            R_before == IF num_rounds = 1 THEN SubSeq(permuted, 33, 64) ELSE earlier[3]
            K_R      == generate_subkeys(key)[num_rounds]
        IN  /\ rounds_result[2] = R_before
            /\ rounds_result[3] = xor(L_before, feistel_function(R_before, K_R))
            /\ rounds_result[1] = permute(rounds_result[3] \o rounds_result[2], FP)
            /\ num_rounds = NumRounds => rounds_result[1] = ciphertext

\* The 16-round call has returned the ciphertext of the full encryption, and
\* a 4-round call a different one.
RoundsRefineEncryptWitness ==
    /\ des_pc = "rounds"
    /\ \/ num_rounds = NumRounds /\ rounds_result[1] = ciphertext
       \/ num_rounds = 4 /\ rounds_result[1] # ciphertext

(***************************************************************************)
(* Properties of the differential attack                                   *)
(***************************************************************************)
\* The statement of the attack in the terms of its specification: S_i(v) for
\* a 6-bit value v, whose outer bits choose the row and inner bits the column.
SBoxOfValue(i, v) == SBoxAt(i, 2 * (v \div 32) + (v % 2), (v \div 2) % 16)

\* The 6-bit slice at offset 6*i of E applied to the last 32 bits of IP(C).
SliceValue(C, i) ==
    bits_to_int(SubSeq(permute(SubSeq(permute(C, IP), 33, 64), E), 6 * i + 1, 6 * i + 6))

\* The slices <<x, x'>> of the ciphertexts of each pair.
SliceValues(pairs, i) ==
    SubSeq([k \in 1..Len(pairs) |-> <<SliceValue(pairs[k][3], i), SliceValue(pairs[k][4], i)>>],
           1, Len(pairs))

\* The number of pairs with S_i(x XOR g) XOR S_i(x' XOR g) = e.
MatchCount(xs, i, e, g) ==
    Cardinality({k \in 1..Len(xs) :
        BitXor(SBoxOfValue(i, BitXor(xs[k][1], g)), SBoxOfValue(i, BitXor(xs[k][2], g))) = e})

\* C4: attack_sbox gives every guess g in 0..63 a score equal to the number
\* of pairs with S_i(x XOR g) XOR S_i(x' XOR g) = e, x and x' being the 6-bit
\* slices at offset 6*i of E applied to the last 32 bits of IP(C) and of
\* IP(C'), a guess missing from the scores counting as 0; and the returned
\* guess has the highest score among the 64 guesses.
DiffScoresCountMatches ==
    diff_pc = "attacked" =>
        /\ \A j \in 1..Len(scores) :
                /\ scores[j][1] \in 0..63
                /\ \A m \in 1..Len(scores) : scores[m][1] = scores[j][1] => m = j
        /\ \A xs \in {SliceValues(diff_pairs, sbox_index)} :
                \A g \in 0..63 :
                    DictGet(scores, g) = MatchCount(xs, sbox_index, expected_output_diff, g)
        /\ best_key \in 0..63
        /\ \A g \in 0..63 : DictGet(scores, best_key) >= DictGet(scores, g)

\* Two pairs have been scored: the returned guess matched both, another guess
\* matched one of them and a third matched none.
DiffScoresCountMatchesWitness ==
    /\ diff_pc = "attacked"
    /\ Len(diff_pairs) = 2
    /\ DictGet(scores, best_key) = 2
    /\ \E g \in 0..63 : DictGet(scores, g) = 1
    /\ \E g \in 0..63 : ~DictHas(scores, g)

\* C5: when several guesses share the highest score, attack_sbox returns the
\* smallest of them.
DiffTieSmallestGuess ==
    diff_pc = "attacked" =>
        \A g \in 0..63 :
            DictGet(scores, g) >= DictGet(scores, best_key) => best_key <= g

\* C6: when every one of the 64 counters of an S-box is zero, no guess is
\* returned for it: attack_sbox's best_key is no value of 0..63, and run_attack
\* prints "brak wyników" for the S-box and its dictionary holds no value of
\* 0..63 for it.
DiffNoSignal ==
    /\ diff_pc = "attacked" =>
          ((\A g \in 0..63 : DictGet(scores, g) = 0) => best_key \notin 0..63)
    /\ diff_pc = "done" =>
          \A sbox_idx \in 0..7 : \A xs \in {SliceValues(diff_pairs, sbox_idx)} :
              (\A g \in 0..63 : MatchCount(xs, sbox_idx, 0, g) = 0) =>
                  /\ diff_printed[sbox_idx + 1] = <<"S-blok", sbox_idx + 1, "brak wyników">>
                  /\ ~(DictHas(recovered_keys, sbox_idx)
                          /\ DictGet(recovered_keys, sbox_idx) \in 0..63)

(***************************************************************************)
(* Properties of the linear attack                                         *)
(***************************************************************************)
\* The slice x of the ciphertext of each pair (P, C).
LinSliceValues(pairs, i) ==
    SubSeq([k \in 1..Len(pairs) |-> SliceValue(pairs[k][2], i)], 1, Len(pairs))

\* T_g: the number of pairs with parity(u AND alpha) = parity(S_i(u) AND beta),
\* u being the slice XOR g.
ApproxCount(xs, i, alpha, beta, g) ==
    Cardinality({k \in 1..Len(xs) :
        parity(BitAnd(BitXor(xs[k], g), alpha))
            = parity(BitAnd(SBoxOfValue(i, BitXor(xs[k], g)), beta))})

\* Twice |T - N/2|, which is a whole number for odd N too.
TwiceDeviation(T, N) == Abs(2 * T - N)

\* C7: for N >= 1 pairs, attack_sbox counts for every guess g in 0..63 the
\* number T_g of pairs with parity(u AND alpha) = parity(S_i(u) AND beta), u
\* being the slice of the ciphertext XOR g and (alpha, beta) the masks of
\* best_lat_mask, a guess missing from the counters counting as 0; and the
\* guess it returns maximises |T_g - N/2| over the 64 guesses.
LinCountsAndMaximises ==
    (lin_pc = "attacked" /\ Len(lin_pairs) >= 1) =>
        /\ \A j \in 1..Len(lin_counters) :
                /\ lin_counters[j][1] \in 0..63
                /\ \A m \in 1..Len(lin_counters) :
                        lin_counters[m][1] = lin_counters[j][1] => m = j
        /\ \A mask \in {best_lat_mask(lats[lin_sbox_index + 1])} :
           \A xs \in {LinSliceValues(lin_pairs, lin_sbox_index)} :
                \A g \in 0..63 :
                    DictGet(lin_counters, g)
                        = ApproxCount(xs, lin_sbox_index, mask[1], mask[2], g)
        /\ lin_best_key \in 0..63
        /\ \A g \in 0..63 :
                TwiceDeviation(DictGet(lin_counters, lin_best_key), Len(lin_pairs))
                    >= TwiceDeviation(DictGet(lin_counters, g), Len(lin_pairs))

\* C8: when several guesses share the maximal deviation |T_g - N/2|,
\* attack_sbox returns the smallest of them.
LinTieSmallestGuess ==
    lin_pc = "attacked" =>
        \A maximal \in {{g \in 0..63 : \A h \in 0..63 :
                            TwiceDeviation(DictGet(lin_counters, h), Len(lin_pairs))
                                <= TwiceDeviation(DictGet(lin_counters, g), Len(lin_pairs))}} :
            Cardinality(maximal) > 1 =>
                /\ lin_best_key \in maximal
                /\ \A g \in maximal : lin_best_key <= g

\* C9: when no guess of an S-box has a non-zero deviation |T_g - N/2|, no
\* guess is selected for it: attack_sbox's best_key is no value of 0..63, and
\* the dictionary of run_attack holds no value of 0..63 for the S-box.
LinNoSignal ==
    /\ lin_pc = "attacked" =>
          ((\A g \in 0..63 :
                TwiceDeviation(DictGet(lin_counters, g), Len(lin_pairs)) = 0)
              => lin_best_key \notin 0..63)
    /\ lin_pc = "done" =>
          \A sbox_idx \in 0..7 :
          \A mask \in {best_lat_mask(lats[sbox_idx + 1])} :
          \A xs \in {LinSliceValues(lin_pairs, sbox_idx)} :
              (\A g \in 0..63 :
                    TwiceDeviation(ApproxCount(xs, sbox_idx, mask[1], mask[2], g),
                                   Len(lin_pairs)) = 0)
                  => ~(DictHas(lin_recovered_keys, sbox_idx)
                          /\ DictGet(lin_recovered_keys, sbox_idx) \in 0..63)

\* What a run reports for an S-box: its item of the returned dictionary, the
\* number of pairs and the lines printed for the S-box.
LinReport(returned, printed, sbox_idx) ==
    <<DictGet(returned, sbox_idx), printed[1], printed[sbox_idx + 2]>>

\* 2 * (T_g - N/2) of the guess g a run returned for an S-box.
LinSignedDeviation(pairs, sbox_idx, mask, g) ==
    2 * ApproxCount(LinSliceValues(pairs, sbox_idx), sbox_idx, mask[1], mask[2], g)
        - Len(pairs)

\* C10: the report of the linear attack for an S-box keeps the sign of
\* (T_g - N/2) of the winning guess: two runs whose winning counters deviate
\* from N/2 by the same amount in opposite directions report differently.
LinReportKeepsSign ==
    (lin_pc = "done" /\ lin_earlier # <<>>) =>
        \A sbox_idx \in 0..7 :
        \A mask \in {best_lat_mask(lats[sbox_idx + 1])} :
        \A one \in {LinSignedDeviation(lin_earlier[1], sbox_idx, mask,
                                       DictGet(lin_earlier[2], sbox_idx))} :
        \A other \in {LinSignedDeviation(lin_pairs, sbox_idx, mask,
                                         DictGet(lin_recovered_keys, sbox_idx))} :
            (one # 0 /\ one = -other) =>
                LinReport(lin_earlier[2], lin_earlier[3], sbox_idx)
                    # LinReport(lin_recovered_keys, lin_printed, sbox_idx)

(***************************************************************************)
(* Properties of both attacks: the order and the batching of the pairs     *)
(***************************************************************************)
\* The lists that hold the same pairs as pairs, in every order.
Reorderings(pairs) ==
    LET n == Len(pairs)
    IN  {[k \in 1..n |-> pairs[p[k]]] :
            p \in {q \in [1..n -> 1..n] : \A a, b \in 1..n : q[a] = q[b] => a = b}}

\* dict == dict of Python: the same keys with the same values, whatever the
\* insertion order.
DictEqual(d1, d2) == {d1[j] : j \in 1..Len(d1)} = {d2[j] : j \in 1..Len(d2)}

\* (best_key, counters) == (best_key, counters) of Python, for the results
\* of two attack_sbox calls.
SameResult(r1, r2) == r1[1] = r2[1] /\ DictEqual(r1[2], r2[2])

\* The counters of two batches added per guess are the counters d.
SumOfBatches(d, first, second) ==
    \A g \in 0..63 : DictGet(d, g) = DictGet(first, g) + DictGet(second, g)

\* C11: the result of attack_sbox (the recovered guess and the per-guess
\* counters), of the differential and of the linear attack, is the same for
\* every ordering of the same pairs, and its counters are the sum per guess
\* of the counters of the batches of every split of the pairs in two.
AttackOrderIndependent ==
    /\ diff_pc = "attacked" =>
          /\ \A reordered \in Reorderings(diff_pairs) :
                SameResult(attack_sbox(reordered, sbox_index, expected_output_diff),
                           <<best_key, scores>>)
          /\ \A k \in 0..Len(diff_pairs) :
                SumOfBatches(scores,
                    attack_sbox(SubSeq(diff_pairs, 1, k), sbox_index,
                                expected_output_diff)[2],
                    attack_sbox(SubSeq(diff_pairs, k + 1, Len(diff_pairs)), sbox_index,
                                expected_output_diff)[2])
    /\ lin_pc = "attacked" =>
          /\ \A reordered \in Reorderings(lin_pairs) :
                SameResult(linear_attack_sbox(lats, reordered, lin_sbox_index),
                           <<lin_best_key, lin_counters>>)
          /\ \A k \in 0..Len(lin_pairs) :
                SumOfBatches(lin_counters,
                    linear_attack_sbox(lats, SubSeq(lin_pairs, 1, k), lin_sbox_index)[2],
                    linear_attack_sbox(lats, SubSeq(lin_pairs, k + 1, Len(lin_pairs)),
                                       lin_sbox_index)[2])

(***************************************************************************)
(* Properties of the demonstrations                                        *)
(***************************************************************************)
\* C12: two runs of an attack demonstration under the same seed of the
\* random module and against the same oracle draw the same plaintexts in
\* the same order and return identical dictionaries of recovered keys.
DemoReproducible ==
    (demo_pc = "done" /\ demo_earlier # <<>>) =>
        /\ demo_plaintexts = demo_earlier[1]
        /\ demo_recovered_keys = demo_earlier[2]

\* A second run has ended that drew two different plaintexts and recovered
\* a guess for every S-box.
DemoReproducibleWitness ==
    /\ demo_pc = "done"
    /\ demo_earlier # <<>>
    /\ Len(demo_plaintexts) = MaxDemoPairs
    /\ demo_plaintexts[1] # demo_plaintexts[MaxDemoPairs]
    /\ Len(demo_recovered_keys) = 8

(***************************************************************************)
(* Properties of the driver                                                *)
(***************************************************************************)
\* The five phases of run_all, in its order.
AllPhases == <<"des_tests", "ddt", "differential", "lat", "linear">>

\* The log of a run in which every phase starts after the one before it has
\* ended, and ends.
EveryPhaseInOrder ==
    [k \in 1..(2 * Len(AllPhases)) |->
        <<IF k % 2 = 1 THEN "start" ELSE "end", AllPhases[(k + 1) \div 2]>>]

\* The starts and ends of phases in the log.
StartsAndEnds == SelectSeq(main_log, LAMBDA e : e[1] \in {"start", "end"})

\* C13: with --all or with no switch, when the DES tests pass, the driver
\* runs the five phases DES tests, DDT analysis, differential attack, LAT
\* analysis, linear attack to completion in this order, each starting after
\* the one before it has ended: the process does not exit before the linear
\* attack demonstration has run.
AllRunsEveryPhase ==
    (main_pc = "exited" /\ args.all /\ des_ok) => StartsAndEnds = EveryPhaseInOrder

\* C14: with --test-des the process exits with code 0 when every test
\* vector encrypts to the expected ciphertext and round-trips, and with
\* code 1 when a vector mismatches.
TestDesExitCode ==
    (main_pc = "exited" /\ args.test_des) => exit_code = (IF des_ok THEN 0 ELSE 1)

\* The attack demonstrations a command line requests.
RequestedDemos ==
    {attack \in {"differential", "linear"} :
        args.all \/ (attack = "differential" /\ args.differential)
                 \/ (attack = "linear" /\ args.linear)}

\* Every ciphertext of the pairs of a demonstration is the 4-round
\* encryption of its plaintext under the key of the demonstration.
EncryptedWith4Rounds(run) ==
    \A k \in 1..Len(run[3]) :
        IF run[1] = "linear"
        THEN run[3][k][2] =
                 des_encrypt_block_rounds(run[3][k][1], hex_to_bits(DemoKeyHex), 4)[1]
        ELSE /\ run[3][k][3] =
                 des_encrypt_block_rounds(run[3][k][1], hex_to_bits(DemoKeyHex), 4)[1]
             /\ run[3][k][4] =
                 des_encrypt_block_rounds(run[3][k][2], hex_to_bits(DemoKeyHex), 4)[1]

\* C15: for every --rounds value other than 4 the driver prints a warning
\* and runs each requested attack demonstration with 4 rounds: the oracle
\* of the demonstration encrypts with exactly 4 rounds and the
\* demonstration reaches its verification step.
ForcedRoundsDemosRun ==
    (main_pc = "exited" /\ args.rounds # 4 /\ (args.all => des_ok)) =>
        \A attack \in RequestedDemos :
            /\ \E j \in 1..Len(main_log) : main_log[j] = <<"warning", attack>>
            /\ \E k \in 1..Len(main_runs) :
                  /\ main_runs[k][1] = attack
                  /\ main_runs[k][2] = 4
                  /\ EncryptedWith4Rounds(main_runs[k])


(***************************************************************************)
(* Properties of the tables of the S-boxes                                 *)
(***************************************************************************)
RECURSIVE SumOfRow(_)
SumOfRow(row) == IF row = <<>> THEN 0 ELSE Head(row) + SumOfRow(Tail(row))

\* |{x in 0..63 : S(x) XOR S(x XOR dx) = dy}| for the S-box of index i.
DifferentialCount(i, dx, dy) ==
    Cardinality({x \in 0..63 :
        BitXor(SBoxOfValue(i, x), SBoxOfValue(i, BitXor(x, dx))) = dy})

\* C16: for each of the eight S-boxes compute_ddt returns a 64x16 table
\* with DDT[dx][dy] = |{x in 0..63 : S(x) XOR S(x XOR dx) = dy}|, in which
\* every row sums to 64, every entry is even, DDT[0][0] = 64 and
\* DDT[0][dy] = 0 for every dy # 0.
DdtCountsAndRows ==
    an_pc = "ddt" =>
        /\ Len(an_ddt) = 64
        /\ \A dx \in 0..63 :
              /\ Len(an_ddt[dx + 1]) = 16
              /\ SumOfRow(an_ddt[dx + 1]) = 64
              /\ \A dy \in 0..15 :
                    /\ an_ddt[dx + 1][dy + 1] = DifferentialCount(an_sbox, dx, dy)
                    /\ an_ddt[dx + 1][dy + 1] % 2 = 0
        /\ an_ddt[1][1] = 64
        /\ \A dy \in 1..15 : an_ddt[1][dy + 1] = 0

\* compute_ddt has returned the table of S-box 5, whose row of the input
\* difference 5 holds the count 16.
DdtCountsAndRowsWitness ==
    /\ an_pc = "ddt"
    /\ an_sbox = 4
    /\ Len(an_ddt) = 64
    /\ an_ddt[6][11] = 16


\* C17: for each of the eight S-boxes the maximum of DDT[dx][dy] over all
\* dx # 0 and all dy, the max_val demonstrate_ddt prints, equals 16: no
\* entry of a row dx # 0 exceeds 16 and some entry of such a row is 16.
DdtMaxIs16 ==
    an_pc = "stats" =>
        /\ an_max_val = 16
        /\ \A dx \in 1..63 : \A dy \in 0..15 : an_ddt[dx + 1][dy + 1] <= an_max_val
        /\ \E dx \in 1..63 : \E dy \in 0..15 : an_ddt[dx + 1][dy + 1] = an_max_val

\* demonstrate_ddt has taken the statistics of the table of S-box 8, in
\* which the row of dx = 0 holds a larger entry than any other row.
DdtMaxIs16Witness ==
    /\ an_pc = "stats"
    /\ an_sbox = 7
    /\ an_nonzero > 0
    /\ an_ddt[1][1] > an_max_val


\* The number of 1 bits of v modulo 2.
RECURSIVE OddOnes(_)
OddOnes(v) == IF v = 0 THEN 0 ELSE ((v % 2) + OddOnes(v \div 2)) % 2

\* |{x in 0..63 : parity(x AND a) = parity(S(x) AND b)}| for the S-box of
\* index i.
AgreementCount(i, a, b) ==
    Cardinality({x \in 0..63 : OddOnes(BitAnd(x, a)) = OddOnes(BitAnd(SBoxOfValue(i, x), b))})

\* C18: for each of the eight S-boxes compute_lat returns a 64x16 table
\* with LAT[a][b] = |{x in 0..63 : parity(x AND a) = parity(S(x) AND b)}|
\* - 32, in which LAT[0][0] = 32, LAT[a][0] = 0 for every a # 0,
\* LAT[0][b] = 0 for every b # 0, and every entry lies in [-32, +32].
LatCountsAndZeroMasks ==
    an_pc = "lat" =>
        /\ Len(an_lat) = 64
        /\ \A a \in 0..63 :
              /\ Len(an_lat[a + 1]) = 16
              /\ \A b \in 0..15 :
                    /\ an_lat[a + 1][b + 1] = AgreementCount(an_sbox, a, b) - 32
                    /\ an_lat[a + 1][b + 1] \in -32..32
        /\ an_lat[1][1] = 32
        /\ \A a \in 1..63 : an_lat[a + 1][1] = 0
        /\ \A b \in 1..15 : an_lat[1][b + 1] = 0

\* compute_lat has returned the table of S-box 5, which holds a negative
\* entry at the masks (16, 15).
LatCountsAndZeroMasksWitness ==
    /\ an_pc = "lat"
    /\ an_sbox = 4
    /\ Len(an_lat) = 64
    /\ an_lat[17][16] < 0


\* C19: best_lat_mask returns the (alpha, beta, LAT[alpha][beta]) of
\* maximum |LAT| over the non-zero masks, the sign of the entry kept; for
\* S-box 5 it returns (16, 15, v) with |v| = 20, and for every S-box the
\* value it returns has absolute value at most 20.
BestLatMaskIsMaximum ==
    an_pc = "mask" =>
        /\ an_mask[1] \in 1..63
        /\ an_mask[2] \in 1..15
        /\ an_mask[3] = an_lat[an_mask[1] + 1][an_mask[2] + 1]
        /\ \A alpha \in 1..63 : \A beta \in 1..15 :
              Abs(an_lat[alpha + 1][beta + 1]) <= Abs(an_mask[3])
        /\ Abs(an_mask[3]) <= 20
        /\ an_sbox = 4 =>
              /\ an_mask[1] = 16
              /\ an_mask[2] = 15
              /\ Abs(an_mask[3]) = 20

\* best_lat_mask has returned for the table of S-box 5, and the entry it
\* returns is negative.
BestLatMaskIsMaximumWitness ==
    /\ an_pc = "mask"
    /\ an_sbox = 4
    /\ an_mask # <<>>
    /\ an_mask[3] < 0


\* The entry (dx, dy, count, count/64) of a table, count/64 being the pair
\* <<count, 64>>.
EntryOf(ddt, dx, dy) == <<dx, dy, ddt[dx + 1][dy + 1], <<ddt[dx + 1][dy + 1], 64>>>>

\* d comes before e in the order by count descending, entries of equal
\* count being ordered by (dx, dy) ascending.
DifferentialBefore(d, e) ==
    \/ d[3] > e[3]
    \/ d[3] = e[3] /\ d[1] < e[1]
    \/ d[3] = e[3] /\ d[1] = e[1] /\ d[2] < e[2]

\* best is the first n entries of the list of the candidates in that
\* order, the whole list when it has fewer than n entries.
FirstOfOrdered(best, candidates, n) ==
    \A returned \in {{best[k] : k \in 1..Len(best)}} :
        /\ Len(best) = IF n < Cardinality(candidates) THEN n ELSE Cardinality(candidates)
        /\ returned \subseteq candidates
        /\ \A k \in 1..(Len(best) - 1) : DifferentialBefore(best[k], best[k + 1])
        /\ Len(best) = 0 \/ \A e \in candidates \ returned :
                                 DifferentialBefore(best[Len(best)], e)

\* C20 as stated: find_best_differentials(ddt, N) returns the first N
\* entries (dx, dy, count, count/64) of the list of all entries with
\* dx # 0 ordered by count descending, entries of equal count being
\* ordered by (dx, dy) ascending.
BestDifferentialsOfAllEntries ==
    an_pc = "best" =>
        FirstOfOrdered(an_best, {EntryOf(an_ddt, dx, dy) : dx \in 1..63, dy \in 0..15}, an_top_n)

\* C20 amended: find_best_differentials(ddt, N), N >= 0, returns the first
\* N entries of the list of the entries with dx # 0 and count > 0 in that
\* order, and the whole list when fewer than N entries have count > 0.
BestDifferentialsOfPossibleEntries ==
    an_pc = "best" =>
        FirstOfOrdered(an_best,
                       {e \in {EntryOf(an_ddt, dx, dy) : dx \in 1..63, dy \in 0..15} : e[3] > 0},
                       an_top_n)

\* find_best_differentials has returned for top_n = 63 * 16 on the table
\* of S-box 1: fewer entries than top_n, the last of them of count 2.
BestDifferentialsWitness ==
    /\ an_pc = "best"
    /\ an_sbox = 0
    /\ an_top_n = 63 * 16
    /\ Len(an_best) \in 1..(63 * 16 - 1)
    /\ an_best[Len(an_best)][3] = 2


(***************************************************************************)
(* Properties of the primitives of des.py                                  *)
(***************************************************************************)
\* The two keys differ, and only in positions 8, 16, ..., 64 (1 = MSB).
DifferOnlyInParityBits(first, other) ==
    /\ first # other
    /\ \A k \in 1..64 : first[k] # other[k] => k \in {8 * j : j \in 1..8}

\* C21: generate_subkeys ignores the eight parity bits of the key: two
\* 64-bit keys that differ only in positions 8, 16, ..., 64 yield the same
\* 16 subkeys, each of 48 bits, and the same ciphertext for a plaintext.
ParityBitsIgnored ==
    (prim_pc = "returned" /\ prim_fn = "generate_subkeys"
        /\ DifferOnlyInParityBits(prim_args[1], prim_args[2])) =>
            /\ prim_result[1] = prim_result[2]
            /\ Len(prim_result[1]) = 16
            /\ \A r \in 1..16 : Len(prim_result[1][r]) = 48
            /\ prim_result[3] = prim_result[4]

\* The subkeys of two keys that differ in all eight parity positions, and
\* the ciphertexts of a block under them, have been computed.
ParityBitsIgnoredWitness ==
    /\ prim_pc = "returned"
    /\ prim_fn = "generate_subkeys"
    /\ DifferOnlyInParityBits(prim_args[1], prim_args[2])
    /\ \A j \in 1..8 : prim_args[1][8 * j] # prim_args[2][8 * j]
    /\ Len(prim_result[3]) = 64


\* C22: left_rotate(block, n) is a cyclic left rotation by n reduced modulo
\* the block width, for every n >= 0, also n greater than the width:
\* result[i] = block[(i + n) mod len(block)], and the result has the width
\* of the block.
LeftRotateReducesModuloWidth ==
    (prim_pc = "returned" /\ prim_fn = "left_rotate") =>
        \A block \in {prim_args[1]} : \A n \in {prim_args[2]} :
            /\ Len(prim_result) = Len(block)
            /\ \A i \in 0..(Len(block) - 1) :
                  prim_result[i + 1] = block[((i + n) % Len(block)) + 1]


\* What a call returned is a block of bits, not the value of a raised error.
IsBlock(v) == \A k \in 1..Len(v) : v[k] \in {0, 1}

\* C23: permute(src, table) returns a block of length len(table) whose
\* element i is src[table[i] - 1] when every table entry lies in
\* 1..len(src), and reports an input error without returning a block when
\* an entry is outside 1..len(src), for example 0 or len(src) + 1.
PermuteRejectsOutOfRange ==
    (prim_pc = "returned" /\ prim_fn = "permute") =>
        \A src \in {prim_args[1]} : \A table \in {prim_args[2]} :
            IF \A i \in 1..Len(table) : table[i] \in 1..Len(src)
            THEN /\ Len(prim_result) = Len(table)
                 /\ \A i \in 1..Len(table) : prim_result[i] = src[table[i]]
            ELSE ~IsBlock(prim_result)

\* C24: xor(a, b) returns the element-wise XOR of two blocks of equal width
\* and requires equal widths: with len(a) # len(b) the call is rejected as
\* an input error and no block, in particular no block shortened to the
\* smaller width, is returned.
XorRequiresEqualWidths ==
    (prim_pc = "returned" /\ prim_fn = "xor") =>
        \A a \in {prim_args[1]} : \A b \in {prim_args[2]} :
            IF Len(a) = Len(b)
            THEN /\ Len(prim_result) = Len(a)
                 /\ \A i \in 1..Len(a) : prim_result[i] = (IF a[i] = b[i] THEN 0 ELSE 1)
            ELSE ~IsBlock(prim_result)


\* C25: hex_to_bits rejects a hex string of odd length, after stripping a
\* leading 0x and whitespace, as an input error instead of returning a
\* 64-bit block; for a 16-digit hex string it returns the 64 bits
\* big-endian, bit 0 being the most significant.
HexToBitsRejectsOddLength ==
    (prim_pc = "returned" /\ prim_fn = "hex_to_bits") =>
        \A digits \in {RemoveSpaces(Remove0x(prim_args[1]))} :
            /\ Len(digits) % 2 = 1 => Len(prim_result) # 64
            /\ (Len(digits) = 16 /\ \A j \in 1..16 : IsHexDigit(digits[j])) =>
                  /\ Len(prim_result) = 64
                  /\ \A j \in 1..16 : \A i \in 1..4 :
                        prim_result[4 * (j - 1) + i] =
                            (HexValue(digits[j]) \div (2 ^ (4 - i))) % 2


(***************************************************************************)
(* Properties of the oracle surface the attacks read                       *)
(***************************************************************************)
\* C26: for every plaintext P, key K and round count 1 <= R <= 16, if
\* (C, L_R, R_R) = des_encrypt_block_rounds(P, K, R) then permute(C, IP) is
\* R_R followed by L_R: its first 32 bits are the returned right half and
\* its last 32 bits the returned left half, which is what both attacks read
\* as R_R and L_R = R_{R-1}: the six bits they take for S-box i are those
\* of E(L_R).
IpOfCiphertextIsRThenL ==
    (des_pc = "rounds" /\ num_rounds \in 1..16) =>
        \A C \in {rounds_result[1]} : \A L_R \in {rounds_result[2]} :
        \A R_R \in {rounds_result[3]} : \A after \in {permute(C, IP)} :
            /\ Len(after) = 64
            /\ SubSeq(after, 1, 32) = R_R
            /\ SubSeq(after, 33, 64) = L_R
            /\ L_R = IF num_rounds = 1 THEN SubSeq(permute(plaintext, IP), 33, 64)
                     ELSE des_encrypt_block_rounds(plaintext, key, num_rounds - 1)[3]
            /\ \A expanded \in {permute(L_R, E)} : \A i \in 0..7 :
                  /\ LastRoundInput(C, i) = SubSeq(expanded, 6 * i + 1, 6 * i + 6)
                  /\ ApproximationInput(C, i) = SubSeq(expanded, 6 * i + 1, 6 * i + 6)

\* des_encrypt_block_rounds has returned for 4 rounds, the round count of
\* the attacks, with halves that differ.
IpOfCiphertextIsRThenLWitness ==
    /\ des_pc = "rounds"
    /\ num_rounds = 4
    /\ Len(rounds_result[1]) = 64
    /\ rounds_result[2] # rounds_result[3]


\* R_{R-1} of the encryption of a block under a key with n rounds: the
\* right half that enters the last round.
LastRoundRight(block, key_bits_64, n) ==
    IF n = 1 THEN SubSeq(permute(block, IP), 33, 64)
    ELSE des_encrypt_block_rounds(block, key_bits_64, n - 1)[3]

\* C28: for every plaintext P, key K, round count 1 <= R <= 16 and S-box
\* index i, with C the ciphertext of des_encrypt_block_rounds(P, K, R),
\* partial_decrypt_last_round(C, K_R[6i..6i+5], i) called with the true
\* 6-bit slice of the last-round subkey equals the 4-bit output of S-box i
\* inside the last round of that encryption, bits 4i..4i+3 of
\* s_box_substitution(E(R_{R-1}) XOR K_R).
PartialDecryptMatchesCipher ==
    (des_pc = "rounds" /\ num_rounds \in 1..16) =>
        \A C \in {rounds_result[1]} : \A K_R \in {generate_subkeys(key)[num_rounds]} :
        \A substituted \in {s_box_substitution(
                               xor(permute(LastRoundRight(plaintext, key, num_rounds), E), K_R))} :
            \A i \in 0..7 :
                int_to_bits(partial_decrypt_last_round(C, SubSeq(K_R, 6 * i + 1, 6 * i + 6), i), 4)
                    = SubSeq(substituted, 4 * i + 1, 4 * i + 4)

\* des_encrypt_block_rounds has returned for 4 rounds and the last-round
\* output of S-box 1 under the true key slice is not 0.
PartialDecryptMatchesCipherWitness ==
    /\ des_pc = "rounds"
    /\ num_rounds = 4
    /\ Len(rounds_result[1]) = 64
    /\ partial_decrypt_last_round(rounds_result[1],
                                  SubSeq(generate_subkeys(key)[4], 1, 6), 0) # 0


(***************************************************************************)
(* Properties of the pairs the attacks work on                             *)
(***************************************************************************)
\* C27: collect_pairs(oracle, N, dL, dR) returns exactly N tuples
\* (P, P', C, C') of 64-bit blocks, each with P XOR P' = int_to_bits(dL, 32)
\* || int_to_bits(dR, 32), C = oracle(P) and C' = oracle(P'), and queries
\* the oracle exactly 2N times, in the order P then P' for each pair.
CollectPairsContract ==
    diff_pc \in {"collected", "done"} =>
        \A delta \in {int_to_bits(input_diff[1], 32) \o int_to_bits(input_diff[2], 32)} :
            /\ Len(diff_pairs) = diff_num_pairs
            /\ Len(oracle_calls) = 2 * diff_num_pairs
            /\ \A k \in 1..Len(diff_pairs) : \A pair \in {diff_pairs[k]} :
                  /\ Len(pair) = 4
                  /\ \A b \in 1..4 : Len(pair[b]) = 64 /\ IsBlock(pair[b])
                  /\ \A j \in 1..64 : (pair[1][j] # pair[2][j]) <=> (delta[j] = 1)
                  /\ pair[3] = des_encrypt_block_rounds(pair[1], key_bits, 4)[1]
                  /\ pair[4] = des_encrypt_block_rounds(pair[2], key_bits, 4)[1]
                  /\ oracle_calls[2 * k - 1] = pair[1]
                  /\ oracle_calls[2 * k] = pair[2]

\* collect_pairs has returned two tuples for two different blocks.
CollectPairsContractWitness ==
    /\ diff_pc = "collected"
    /\ diff_num_pairs = 2
    /\ Len(diff_pairs) = 2
    /\ diff_pairs[1][1] # diff_pairs[2][1]
    /\ Len(oracle_calls) = 4


\* Blocks put in the place of the plaintexts of the pairs.
ReplacementBlocks == {[k \in 1..64 |-> 0], BlockOf(MaxSeed)}

\* The pairs with every plaintext component, the first `plain` components of
\* a tuple, replaced by the block, the ciphertexts unchanged.
WithPlaintexts(pairs, plain, block) ==
    [k \in 1..Len(pairs) |->
        [c \in 1..Len(pairs[k]) |-> IF c <= plain THEN block ELSE pairs[k][c]]]

\* C29: the recovered guess and the counters returned by attack_sbox, in
\* the differential and in the linear attack, depend only on the ciphertext
\* components of the pairs: with the plaintext components P (and P') of
\* every pair replaced by other blocks and the ciphertexts unchanged, the
\* result is the same.
AttackReadsCiphertextsOnly ==
    /\ diff_pc = "attacked" =>
          \A block \in ReplacementBlocks :
              attack_sbox(WithPlaintexts(diff_pairs, 2, block), sbox_index,
                          expected_output_diff) = <<best_key, scores>>
    /\ lin_pc = "attacked" =>
          \A block \in ReplacementBlocks :
              \A result \in {linear_attack_sbox(lats, WithPlaintexts(lin_pairs, 1, block),
                                                lin_sbox_index)} :
                  /\ result[1] = lin_best_key
                  /\ result[2] = lin_counters

\* The differential attack_sbox has returned counters for two pairs whose
\* plaintexts are none of the replacement blocks.
AttackReadsCiphertextsOnlyWitness ==
    /\ diff_pc = "attacked"
    /\ Len(diff_pairs) = 2
    /\ scores # <<>>
    /\ \A k \in 1..2 : \A c \in 1..2 : diff_pairs[k][c] \notin ReplacementBlocks

====
